---------------------------- MODULE Spec2Model ----------------------------
(***************************************************************************)
(* A model of the balance-test core of ltad-coach: the duration score      *)
(* (services/metrics.py), the bilateral comparison                         *)
(* (services/bilateral_comparison.py), the trend analyzer                  *)
(* (services/trend_analyzer.py) and the video analysis loop with its pose  *)
(* processor and failure detector (services/analysis.py,                   *)
(* services/mediapipe_processor.py, utils/video.py).                       *)
(*                                                                         *)
(* Units.  Python floats are modelled by scaled integers, exactly:         *)
(*   hold times of the duration score        centiseconds (1/100 s)        *)
(*   hold times of the bilateral comparison  tenths of a second            *)
(*   hold times of the trend analyzer        whole seconds                 *)
(*   video timestamps                        milliseconds                  *)
(*   normalized landmark coordinates         hundredths of the frame       *)
(* Comparisons between quotients are made by cross-multiplication, so a    *)
(* boundary such as "exactly 10%" or "exactly 20%" is decided exactly.     *)
(***************************************************************************)
EXTENDS Integers, Sequences, FiniteSets, TLC

VARIABLES
    \* get_duration_score: the call being observed and the one before it
    duration, score, prev_duration, prev_score,
    \* calculate_bilateral_comparison: its two arguments and what it returned
    left_metrics, right_metrics, comparison,
    \* analyze_trend: the assessments argument (as the database returns the
    \* history, most recent first) and what the call returned
    assessments, analysis,
    \* calls of analyze_trend observed one after another: the list the latest
    \* call was given, as it was before the call, and the first call's
    \* argument and result, with whether a call on another list has followed
    \* it and whether its list was analyzed again after such a call
    given, reference,
    \* PoseProcessor: the landmarker's state ("none" before it is created,
    \* "open", "closed"), the fields frame_count and last_timestamp_ms, the
    \* last two timestamps the landmarker received (oldest first), and what
    \* process_frame last returned
    landmarker, frame_count, last_timestamp_ms, tracker_received, landmarks,
    \* FailureDetector: leg_tested and support_ankle_initial
    leg_tested, support_ankle_initial,
    \* extract_frames: processed_count and current_timestamp_ms
    processed_count, current_timestamp_ms,
    \* analyze_video: where the call is, its argument client_duration (tenths
    \* of a second), its locals frames_processed, frames_with_pose,
    \* failure_reason, timestamp (of the frame in hand, ms) and the last
    \* element of timestamps (ms; 0 while the list is empty), whether the
    \* keypoint file has been uploaded, and how the call ended
    pc, client_duration, frames_processed, frames_with_pose, failure_reason,
    timestamp, last_timestamp, uploaded, outcome,
    \* concurrent requests: for each request, which service handles it, where
    \* it is and how many frames it has fed; for each pose-model instance,
    \* whether it exists, the videos whose frames it has received and the
    \* last two timestamps it was given
    requests, instances,
    \* extract_frames on its own: the generator's locals (reported_fps is what
    \* the container reports, source_fps what the generator uses), the last two
    \* timestamps it yielded (ms) and the last two integer millisecond values
    \* the frame loop derived from them
    generator, yielded, passed,
    \* services/metrics.py, MetricsCalculator: the filtered frames and the
    \* duration it was built with, and what calculate_all gave
    filtered_landmarks, calc_duration, all_metrics,
    \* utils/filtering.py, filter_landmarks: the list of frames it is given and
    \* what the call gave
    raw_landmarks, filter_result,
    \* services/metrics.py, _count_corrections: the hip trajectory it is given
    \* and the count it gave
    hip_path, corrections_counted,
    \* services/mediapipe_service.py, calculate_arm_metrics: its frames_data
    \* argument and the dictionary it returned
    frames_data, arm_metrics

scoreVars == <<duration, score, prev_duration, prev_score>>
bilateralVars == <<left_metrics, right_metrics, comparison>>

trendVars == <<assessments, analysis, given, reference>>

processorVars ==
    <<landmarker, frame_count, last_timestamp_ms, tracker_received, landmarks>>
detectorVars == <<leg_tested, support_ankle_initial>>
framesVars == <<processed_count, current_timestamp_ms>>
analysisVars ==
    <<pc, client_duration, frames_processed, frames_with_pose, failure_reason,
      timestamp, last_timestamp, uploaded, outcome>>
videoVars == <<processorVars, detectorVars, framesVars, analysisVars>>

requestVars == <<requests, instances>>
captureVars == <<generator, yielded, passed>>
metricsVars == <<filtered_landmarks, calc_duration, all_metrics>>
filterVars == <<raw_landmarks, filter_result>>
correctionsVars == <<hip_path, corrections_counted>>
armsVars == <<frames_data, arm_metrics>>

vars ==
    <<scoreVars, bilateralVars, trendVars, videoVars, requestVars,
      captureVars, metricsVars, filterVars, correctionsVars, armsVars>>

\* what each component leaves alone: the variables of the others
notScore ==
    <<bilateralVars, trendVars, videoVars, requestVars, captureVars,
      metricsVars, filterVars, correctionsVars, armsVars>>
notBilateral ==
    <<scoreVars, trendVars, videoVars, requestVars, captureVars,
      metricsVars, filterVars, correctionsVars, armsVars>>
notTrend ==
    <<scoreVars, bilateralVars, videoVars, requestVars, captureVars,
      metricsVars, filterVars, correctionsVars, armsVars>>
notVideo ==
    <<scoreVars, bilateralVars, trendVars, requestVars, captureVars,
      metricsVars, filterVars, correctionsVars, armsVars>>
notRequests ==
    <<scoreVars, bilateralVars, trendVars, videoVars, captureVars,
      metricsVars, filterVars, correctionsVars, armsVars>>
notCapture ==
    <<scoreVars, bilateralVars, trendVars, videoVars, requestVars,
      metricsVars, filterVars, correctionsVars, armsVars>>
notMetrics ==
    <<scoreVars, bilateralVars, trendVars, videoVars, requestVars,
      captureVars, filterVars, correctionsVars, armsVars>>
notFilter ==
    <<scoreVars, bilateralVars, trendVars, videoVars, requestVars,
      captureVars, metricsVars, correctionsVars, armsVars>>
notCorrections ==
    <<scoreVars, bilateralVars, trendVars, videoVars, requestVars,
      captureVars, metricsVars, filterVars, armsVars>>
notArms ==
    <<scoreVars, bilateralVars, trendVars, videoVars, requestVars,
      captureVars, metricsVars, filterVars, correctionsVars>>

\* a result that has not been computed yet (Python's None)
None == [none |-> TRUE]

(***************************************************************************)
(* Bounds of the model.                                                    *)
(***************************************************************************)
\* largest hold time handed to get_duration_score, in centiseconds (36 s:
\* analyze_video can report up to 35.001 s)
MaxDuration == 3600
\* two successive observed calls differ by at most this many centiseconds
MaxGap == 5
\* largest hold time of a leg in the bilateral comparison, in tenths of a second
MaxHold == 40
\* longest assessment history handed to analyze_trend
MaxRecords == 6
\* most assessments of a history that carry no metrics
MaxMissing == 1
\* records in a list handed to analyze_trend in an order of the caller's
MaxSupplied == 4
\* most frames of a video in which the landmarker detects no pose
MaxNoPose == 3
\* direct calls of process_frame on one PoseProcessor, and the largest
\* timestamp (ms) such a call passes
MaxCalls == 4
MaxTimestampMs == 3
\* requests in flight at once, and the frames of one request's video
MaxRequests == 2
MaxFrames == 2
\* frames one run of extract_frames emits
MaxEmitted == 1060
\* frames of a filtered trajectory handed to the metrics calculator
MaxTrajectory == 2
\* frames of a list handed to filter_landmarks
MaxRawFrames == 4
\* samples of a hip trajectory whose corrections are counted
MaxSamples == 5
\* frames of a frames_data list handed to calculate_arm_metrics
MaxArmFrames == 2

(***************************************************************************)
(* constants/scoring.py                                                    *)
(***************************************************************************)
\* DURATION_SCORE_THRESHOLDS, score -> (min_dur, max_dur), in centiseconds
DURATION_SCORE_THRESHOLDS ==
    [s \in 1..5 |->
        CASE s = 1 -> <<100, 990>>
          [] s = 2 -> <<1000, 1490>>
          [] s = 3 -> <<1500, 1990>>
          [] s = 4 -> <<2000, 2490>>
          [] s = 5 -> <<2500, 3000>>]

(***************************************************************************)
(* services/metrics.py: get_duration_score                                 *)
(***************************************************************************)
\* the for loop over the table's items from entry s on: the first range
\* that contains the duration (both ends inclusive) wins; 0 when none does
RECURSIVE first_matching_score(_, _)
first_matching_score(s, d) ==
    IF s > 5 THEN 0
    ELSE IF DURATION_SCORE_THRESHOLDS[s][1] <= d /\ d <= DURATION_SCORE_THRESHOLDS[s][2]
         THEN s
         ELSE first_matching_score(s + 1, d)

\* get_duration_score(duration): the matching score, else the fallback 1
get_duration_score(d) ==
    IF first_matching_score(1, d) # 0 THEN first_matching_score(1, d) ELSE 1

\* the variables of get_duration_score while another component is observed
ScoreIdle ==
    /\ duration = 0
    /\ score = 0
    /\ prev_duration = 0
    /\ prev_score = 0

\* the first observed call, on any hold time
ScoreInit ==
    /\ duration \in 0..MaxDuration
    /\ score = get_duration_score(duration)
    /\ prev_duration = duration
    /\ prev_score = score

\* a further call, on a hold time a little larger than the last one
ScoreLonger ==
    /\ \E h \in (duration + 1)..(duration + MaxGap) :
          /\ h <= MaxDuration
          /\ duration' = h
          /\ score' = get_duration_score(h)
    /\ prev_duration' = duration
    /\ prev_score' = score
    /\ UNCHANGED notScore

(***************************************************************************)
(* services/bilateral_comparison.py: calculate_bilateral_comparison        *)
(***************************************************************************)
Abs(x) == IF x < 0 THEN -x ELSE x
Max(a, b) == IF a >= b THEN a ELSE b
Min(a, b) == IF a <= b THEN a ELSE b

\* duration_difference = abs(left_hold - right_hold), in tenths of a second
duration_difference(l, r) == Abs(l.hold_time - r.hold_time)

\* the left hold time taken for the longer one
left_duration(l, r) == l.hold_time

\* max_duration = max(left_hold, right_hold)
max_duration(l, r) == Max(l.hold_time, r.hold_time)

\* duration_difference_pct = duration_difference / max_duration * 100 when
\* max_duration > 0, else 0.0: the exact quotient <<numerator, denominator>>
duration_difference_pct(l, r) ==
    IF max_duration(l, r) > 0
    THEN <<duration_difference(l, r) * 100, max_duration(l, r)>>
    ELSE <<0, 1>>

\* q < n for a quotient q = <<numerator, denominator>> with denominator > 0
QLess(q, n) == q[1] < n * q[2]

\* dominant_leg with the 20% boundary on the balanced side (<= for <)
dominant_leg_inclusive(l, r) ==
    IF ~QLess(<<20 * duration_difference_pct(l, r)[2], duration_difference_pct(l, r)[1]>>, 1)
    THEN "balanced"
    ELSE IF l.hold_time > r.hold_time THEN "left"
    ELSE "right"

\* the if / elif / else that determines the dominant leg
dominant_leg(l, r) ==
    IF QLess(duration_difference_pct(l, r), 20) THEN "balanced"
    ELSE IF l.hold_time > r.hold_time THEN "left"
    ELSE "right"

\* arithmetic on exact quotients <<numerator, denominator>>, denominator > 0
QAdd(p, q) == <<p[1] * q[2] + q[1] * p[2], p[2] * q[2]>>
QScale(k, q) == <<k * q[1], q[2]>>
QAtLeast(q, n) == q[1] >= n * q[2]

\* round(q * scale) of a quotient q >= 0, ties to the even neighbour as
\* Python rounds: the result counts units of 1 / scale
round_to(q, scale) ==
    LET n == q[1] * scale
        whole == n \div q[2]
        rest == n % q[2]
    IN  IF 2 * rest < q[2] THEN whole
        ELSE IF 2 * rest > q[2] THEN whole + 1
        ELSE IF whole % 2 = 0 THEN whole
        ELSE whole + 1

\* sway_difference = abs(left_sway - right_sway), in tenths of a cm/s
sway_difference(l, r) == Abs(l.sway_velocity - r.sway_velocity)

\* the average with the halving left out
avg_sway_not_halved(l, r) == <<l.sway_velocity + r.sway_velocity, 1>>

\* avg_sway = (left_sway + right_sway) / 2
avg_sway(l, r) == <<l.sway_velocity + r.sway_velocity, 2>>

\* sway_symmetry_score = 1.0 - min(sway_difference / avg_sway, 1.0) when
\* avg_sway > 0, else 1.0
sway_symmetry_score(l, r) ==
    LET avg == avg_sway(l, r)
        \* sway_difference / avg_sway = difference * avg[2] / avg[1]
        ratio_num == sway_difference(l, r) * avg[2]
    IN  IF avg[1] > 0
        THEN <<avg[1] - Min(ratio_num, avg[1]), avg[1]>>
        ELSE <<1, 1>>

\* left_arm_avg, right_arm_avg: (arm_angle_left + arm_angle_right) / 2 of
\* one record, in tenths of a degree
arm_avg(m) == <<m.arm_angle_left + m.arm_angle_right, 2>>

\* arm_angle_difference = abs(left_arm_avg - right_arm_avg)
arm_angle_difference(l, r) == <<Abs(arm_avg(l)[1] - arm_avg(r)[1]), 2>>

\* corrections_difference = left_corrections - right_corrections (signed)
corrections_difference(l, r) == l.corrections_count - r.corrections_count

\* duration_symmetry = max(0, 100 - duration_difference_pct)
duration_symmetry(l, r) ==
    LET pct == duration_difference_pct(l, r)
    IN  <<Max(0, 100 * pct[2] - pct[1]), pct[2]>>

\* sway_symmetry_pct = sway_symmetry_score * 100
sway_symmetry_pct(l, r) == QScale(100, sway_symmetry_score(l, r))

\* arm_symmetry_pct = max(0, 100 - (arm_angle_difference / 15 * 100)): with
\* the difference d / 2 tenths of a degree this is max(0, 300 - d) / 3
arm_symmetry_pct(l, r) ==
    <<Max(0, 300 - arm_angle_difference(l, r)[1]), 3>>

\* corrections_symmetry_pct =
\*     max(0, 100 - (abs(corrections_difference) / 5 * 100))
corrections_symmetry_pct(l, r) ==
    <<Max(0, 100 - 20 * Abs(corrections_difference(l, r))), 1>>

\* overall_symmetry_score: the weighted sum (0.5, 0.3, 0.1, 0.1), clamped
\* to 0..100
overall_symmetry_score(l, r) ==
    LET weighted ==
            QAdd(QAdd(QScale(5, duration_symmetry(l, r)),
                      QScale(3, sway_symmetry_pct(l, r))),
                 QAdd(arm_symmetry_pct(l, r),
                      corrections_symmetry_pct(l, r)))
        total == <<weighted[1], 10 * weighted[2]>>
    IN  IF total[1] < 0 THEN <<0, 1>>
        ELSE IF QAtLeast(total, 100) THEN <<100, 1>>
        ELSE total

\* the classification of the score before it is rounded
symmetry_assessment(l, r) ==
    LET overall == overall_symmetry_score(l, r)
    IN  IF QAtLeast(overall, 85) THEN "excellent"
        ELSE IF QAtLeast(overall, 70) THEN "good"
        ELSE IF QAtLeast(overall, 50) THEN "fair"
        ELSE "poor"

\* the returned dictionary: duration_difference, duration_difference_pct,
\* sway_difference, arm_angle_difference and overall_symmetry_score in
\* tenths (round(x, 1)), sway_symmetry_score in hundredths (round(x, 2))
calculate_bilateral_comparison(l, r) ==
    [duration_difference |-> duration_difference(l, r),
     duration_difference_pct |-> round_to(duration_difference_pct(l, r), 10),
     dominant_leg |-> dominant_leg(l, r),
     sway_difference |-> sway_difference(l, r),
     sway_symmetry_score |-> round_to(sway_symmetry_score(l, r), 100),
     arm_angle_difference |-> round_to(arm_angle_difference(l, r), 1),
     corrections_difference |-> corrections_difference(l, r),
     overall_symmetry_score |-> round_to(overall_symmetry_score(l, r), 10),
     symmetry_assessment |-> symmetry_assessment(l, r)]

\* hold times in tenths of a second: every one up to MaxHold and the two of
\* the documented example
HoldTimes == 0..MaxHold \cup {238, 253}

\* the other fields of a metrics record (a field the record lacks reads as
\* 0, the default of dict.get): sway velocity in tenths of a cm/s, arm
\* angles in tenths of a degree, corrections counted
OtherMetrics ==
    {[sway_velocity |-> 0, arm_angle_left |-> 0, arm_angle_right |-> 0,
      corrections_count |-> 0],
     [sway_velocity |-> 21, arm_angle_left |-> 0, arm_angle_right |-> 0,
      corrections_count |-> 0],
     [sway_velocity |-> 23, arm_angle_left |-> 0, arm_angle_right |-> 0,
      corrections_count |-> 0],
     [sway_velocity |-> 23, arm_angle_left |-> 100, arm_angle_right |-> 120,
      corrections_count |-> 2],
     [sway_velocity |-> 5, arm_angle_left |-> 400, arm_angle_right |-> 380,
      corrections_count |-> 7]}

MetricsInputs ==
    {[hold_time |-> h, sway_velocity |-> o.sway_velocity,
      arm_angle_left |-> o.arm_angle_left,
      arm_angle_right |-> o.arm_angle_right,
      corrections_count |-> o.corrections_count] :
        h \in HoldTimes, o \in OtherMetrics}

no_metrics ==
    [hold_time |-> 0, sway_velocity |-> 0, arm_angle_left |-> 0,
     arm_angle_right |-> 0, corrections_count |-> 0]

BilateralIdle ==
    /\ left_metrics = no_metrics
    /\ right_metrics = no_metrics
    /\ comparison = None

\* two metrics records, not yet compared
BilateralInit ==
    /\ left_metrics \in MetricsInputs
    /\ right_metrics \in MetricsInputs
    /\ comparison = None

\* the call calculate_bilateral_comparison(left_metrics, right_metrics)
Compare ==
    /\ comparison = None
    /\ comparison' = calculate_bilateral_comparison(left_metrics, right_metrics)
    /\ UNCHANGED <<left_metrics, right_metrics>>
    /\ UNCHANGED notBilateral

(***************************************************************************)
(* services/trend_analyzer.py                                              *)
(* Hold times are whole seconds.  A quotient test such as                  *)
(* recent_avg > older_avg * 1.10 is decided by cross-multiplication.       *)
(* The date strings and the consistency figure of the result are labels    *)
(* no decision reads; they are left out of the modelled result.            *)
(***************************************************************************)
RECURSIVE Sum(_)
Sum(seq) == IF seq = <<>> THEN 0 ELSE Head(seq) + Sum(Tail(seq))

\* one step of _detect_direction_changes: 5% threshold
step_direction(prev_score_, curr_score) ==
    IF 100 * curr_score > 105 * prev_score_ THEN "up"
    ELSE IF 100 * curr_score < 95 * prev_score_ THEN "down"
    ELSE "flat"

\* the loop of _detect_direction_changes with every step's direction
\* remembered, the flat ones included
RECURSIVE direction_changes_flat_remembered(_, _, _, _)
direction_changes_flat_remembered(scores, i, current_direction, changes) ==
    IF i > Len(scores) THEN changes
    ELSE LET d == step_direction(scores[i - 1], scores[i])
             flagged == current_direction # "none" /\ d # "flat"
                          /\ d # current_direction
             event == [at_index |-> i - 1,
                       from_direction |-> current_direction,
                       to_direction |-> d,
                       from_score |-> scores[i - 1],
                       to_score |-> scores[i]]
         IN direction_changes_flat_remembered(
                scores, i + 1, d,
                IF flagged THEN Append(changes, event) ELSE changes)

\* the loop of _detect_direction_changes from index i on (1-based: scores[i]
\* is the current score), with the direction remembered so far and the
\* events recorded so far; at_index is the 0-based index of the code
RECURSIVE direction_changes_from(_, _, _, _)
direction_changes_from(scores, i, current_direction, changes) ==
    IF i > Len(scores) THEN changes
    ELSE LET d == step_direction(scores[i - 1], scores[i])
             flagged == current_direction # "none" /\ d # "flat"
                          /\ d # current_direction
             event == [at_index |-> i - 1,
                       from_direction |-> current_direction,
                       to_direction |-> d,
                       from_score |-> scores[i - 1],
                       to_score |-> scores[i]]
         IN direction_changes_from(
                scores, i + 1,
                IF d # "flat" THEN d ELSE current_direction,
                IF flagged THEN Append(changes, event) ELSE changes)

_detect_direction_changes(scores) ==
    direction_changes_from(scores, 2, "none", <<>>)

\* scores[-3:] and scores[:-3]
recent_window(scores) == SubSeq(scores, Len(scores) - 2, Len(scores))
older_window(scores) == SubSeq(scores, 1, Len(scores) - 3)

\* window_trend with a 5% band in place of the 10% band
window_trend_narrow_band(scores) ==
    LET r == Sum(recent_window(scores))
        o == Sum(older_window(scores))
        n == Len(older_window(scores))
    IN  IF 20 * n * r > 63 * o
        THEN <<"improving",
               IF 4 * n * r > 15 * o THEN "significant" ELSE "moderate">>
        ELSE IF 20 * n * r < 57 * o
        THEN <<"declining",
               IF 4 * n * r < 9 * o THEN "significant" ELSE "moderate">>
        ELSE <<"stable", "slight">>

\* the window comparison of _detect_trend (len(scores) >= 4):
\* recent_avg = sum(recent)/3, older_avg = sum(older)/len(older)
\*   recent_avg > older_avg * 1.10  <=>  10 * n * sum(recent) > 33 * sum(older)
\*   recent_avg > older_avg * 1.25  <=>   4 * n * sum(recent) > 15 * sum(older)
\*   recent_avg < older_avg * 0.90  <=>  10 * n * sum(recent) < 27 * sum(older)
\*   recent_avg < older_avg * 0.75  <=>   4 * n * sum(recent) <  9 * sum(older)
window_trend(scores) ==
    LET r == Sum(recent_window(scores))
        o == Sum(older_window(scores))
        n == Len(older_window(scores))
    IN  IF 10 * n * r > 33 * o
        THEN <<"improving",
               IF 4 * n * r > 15 * o THEN "significant" ELSE "moderate">>
        ELSE IF 10 * n * r < 27 * o
        THEN <<"declining",
               IF 4 * n * r < 9 * o THEN "significant" ELSE "moderate">>
        ELSE <<"stable", "slight">>

\* the fallback of _detect_trend (2 or 3 scores, first score not 0):
\* pct_change = (last - first) / first * 100
fallback_trend(scores) ==
    LET first_score == scores[1]
        last_score == scores[Len(scores)]
        change == (last_score - first_score) * 100
    IN  <<IF change > 10 * first_score THEN "improving"
          ELSE IF change < -10 * first_score THEN "declining"
          ELSE "stable",
          IF Abs(change) >= 25 * first_score THEN "significant"
          ELSE IF Abs(change) >= 10 * first_score THEN "moderate"
          ELSE "slight">>

\* _detect_trend(scores, dates): <<trend, strength, direction_changes>>, or
\* the exception the division by first_score raises
_detect_trend(scores) ==
    IF Len(scores) < 2 THEN [raised |-> "no", trend |-> "stable",
                             strength |-> "slight", changes |-> <<>>]
    ELSE IF Len(scores) >= 4
    THEN [raised |-> "no", trend |-> window_trend(scores)[1],
          strength |-> window_trend(scores)[2],
          changes |-> _detect_direction_changes(scores)]
    ELSE IF scores[1] = 0
    THEN [raised |-> "ZeroDivisionError"]
    ELSE [raised |-> "no", trend |-> fallback_trend(scores)[1],
          strength |-> fallback_trend(scores)[2],
          changes |-> _detect_direction_changes(scores)]

\* sorted(assessments, key=created_at): a stable sort, oldest first
RECURSIVE insert_by_created_at(_, _)
insert_by_created_at(sorted, a) ==
    IF sorted = <<>> THEN <<a>>
    ELSE IF sorted[Len(sorted)].created_at <= a.created_at
    THEN Append(sorted, a)
    ELSE Append(insert_by_created_at(SubSeq(sorted, 1, Len(sorted) - 1), a),
                sorted[Len(sorted)])

RECURSIVE sorted_assessments(_)
sorted_assessments(list) ==
    IF list = <<>> THEN <<>>
    ELSE insert_by_created_at(
             sorted_assessments(SubSeq(list, 1, Len(list) - 1)),
             list[Len(list)])

\* a metrics dict without any key ({}); a record whose "metrics" key is
\* absent reads as this one, assessment.get("metrics", {})
EmptyDict == [empty |-> TRUE]

\* `if not metrics: continue` with only None taken as missing
has_metrics_unless_none(a) == a.metrics # None

\* `if not metrics: continue`: None and the empty dict are skipped
has_metrics(a) == a.metrics # None /\ a.metrics # EmptyDict

\* metrics.get("hold_time", 0)
hold_time_of(m) == IF "hold_time" \in DOMAIN m THEN m.hold_time ELSE 0

\* the hold times collected by the loop over sorted_assessments
hold_times(list) ==
    LET usable == SelectSeq(sorted_assessments(list), has_metrics)
    IN  [i \in 1..Len(usable) |-> hold_time_of(usable[i].metrics)]

\* hold_times.index(max(hold_times)), 1-based
peak_index(times) ==
    CHOOSE i \in 1..Len(times) :
        /\ \A j \in 1..Len(times) : times[j] <= times[i]
        /\ \A j \in 1..(i - 1) : times[j] < times[i]

\* the default TrendAnalysis returned when there is nothing to analyze
empty_analysis(count) ==
    [raised |-> "no", trend |-> "stable", trend_strength |-> "slight",
     direction_changes |-> <<>>,
     score_trajectory |-> [first |-> 0, current |-> 0, peak |-> 0],
     first_to_current_delta |-> 0, peak_to_current_delta |-> 0,
     assessment_count |-> count]

\* analyze_trend(assessments, athlete_name, athlete_age)
analyze_trend(list) ==
    IF list = <<>> THEN empty_analysis(0)
    ELSE IF hold_times(list) = <<>> THEN empty_analysis(Len(list))
    ELSE LET times == hold_times(list)
             detected == _detect_trend(times)
             first == times[1]
             current == times[Len(times)]
             peak == times[peak_index(times)]
         IN  IF detected.raised # "no" THEN [raised |-> detected.raised]
             ELSE [raised |-> "no", trend |-> detected.trend,
                   trend_strength |-> detected.strength,
                   direction_changes |-> detected.changes,
                   score_trajectory |->
                       [first |-> first, current |-> current, peak |-> peak],
                   first_to_current_delta |-> current - first,
                   peak_to_current_delta |-> peak - current,
                   assessment_count |-> Len(list)]

\* hold times of an athlete's first assessment, and how far the next
\* assessment's hold time may lie from the last one
FirstHolds == {0, 8, 10, 30}
Steps == {-1, 0, 1}

\* the hold times a new assessment may have: near the hold time of the most
\* recent assessment that has metrics
NextHolds(list) ==
    LET usable == SelectSeq(list, has_metrics)
    IN  IF usable = <<>> THEN FirstHolds
        ELSE {h \in {hold_time_of(Head(usable).metrics) + d : d \in Steps} :
                 h >= 0}

\* a stored history, most recent first, from hold times oldest first
RECURSIVE history_of(_)
history_of(times) ==
    IF times = <<>> THEN <<>>
    ELSE <<[created_at |-> Len(times),
            metrics |-> [hold_time |-> times[Len(times)]]]>>
         \o history_of(SubSeq(times, 1, Len(times) - 1))

\* the histories an observation starts from: none, or the six assessments
\* with hold times 8, 9, 10, 11, 14, 16
SeedHistories == {<<>>, history_of(<<8, 9, 10, 11, 14, 16>>)}

missing_count(list) == Len(SelectSeq(list, LAMBDA a : ~has_metrics(a)))

TrendIdle ==
    /\ assessments = <<>>
    /\ analysis = None
    /\ given = None
    /\ reference = None

TrendInit ==
    /\ assessments \in SeedHistories
    /\ analysis = None
    /\ given = None
    /\ reference = None

\* a new assessment is stored; the history is read most recent first
\* (repositories/assessment.py orders by created_at DESCENDING)
AddAssessment ==
    /\ Len(assessments) < MaxRecords
    /\ \E m \in {[hold_time |-> h] : h \in NextHolds(assessments)}
              \cup (IF missing_count(assessments) < MaxMissing
                    THEN {None, EmptyDict} ELSE {}) :
          assessments' = <<[created_at |-> Len(assessments) + 1,
                            metrics |-> m]>> \o assessments
    /\ analysis' = None
    /\ UNCHANGED <<given, reference>>
    /\ UNCHANGED notTrend

\* the call analyze_trend(assessments, ...)
AnalyzeTrend ==
    /\ analysis = None
    /\ analysis' = analyze_trend(assessments)
    /\ UNCHANGED <<assessments, given, reference>>
    /\ UNCHANGED notTrend

\* the caller's list with sorted_assessments written back into it
sorted_in_place(list) == sorted_assessments(list)

\* the caller's list after a call: sorted() builds a new list and the loop
\* only reads the records, so the argument is as it was
list_after_call(list) == list

\* the records a caller may hand over: two of the same date with different
\* hold times, a later one, and a record without metrics
SuppliedRecords ==
    {[created_at |-> 1, metrics |-> [hold_time |-> 10]],
     [created_at |-> 1, metrics |-> [hold_time |-> 20]],
     [created_at |-> 2, metrics |-> [hold_time |-> 10]],
     [created_at |-> 2, metrics |-> None]}

RECURSIVE lists_of_length(_)
lists_of_length(n) ==
    IF n = 0 THEN {<<>>}
    ELSE {Append(l, r) : l \in lists_of_length(n - 1), r \in SuppliedRecords}

\* every list of at most MaxSupplied records, in every order
SuppliedLists == UNION {lists_of_length(n) : n \in 0..MaxSupplied}

CallsInit ==
    /\ assessments \in SuppliedLists
    /\ analysis = None
    /\ given = None
    /\ reference = None

\* analyze_trend(assessments, ...) is called, for the first time or again
CallAnalyzeTrend ==
    /\ given' = [list |-> assessments]
    /\ analysis' = analyze_trend(assessments)
    /\ assessments' = list_after_call(assessments)
    /\ reference' =
           IF reference = None
           THEN [input |-> assessments,
                 result |-> analyze_trend(assessments),
                 other_calls |-> FALSE, called_again |-> FALSE]
           ELSE IF reference.input # assessments
           THEN [reference EXCEPT !.other_calls = TRUE]
           ELSE [reference EXCEPT !.called_again = reference.other_calls]
    /\ UNCHANGED notTrend

\* after the first call the caller hands the same records over in another
\* order: two neighbours change places, and no result exists yet for the
\* new list
Resupply ==
    /\ reference # None
    /\ \E i \in 1..(Len(assessments) - 1) :
          /\ assessments[i] # assessments[i + 1]
          /\ assessments' =
                 [assessments EXCEPT ![i] = assessments[i + 1],
                                     ![i + 1] = assessments[i]]
    /\ analysis' = None
    /\ given' = None
    /\ UNCHANGED reference
    /\ UNCHANGED notTrend

(***************************************************************************)
(* constants/landmarks.py, and the literals of analysis.py and             *)
(* mediapipe_processor.py                                                  *)
(***************************************************************************)
LEFT_ANKLE == 27
RIGHT_ANKLE == 28
\* 0.05 of the frame, in hundredths
FOOT_TOUCHDOWN_THRESHOLD == 5
SUPPORT_FOOT_MOVEMENT_THRESHOLD == 5
\* check_failure: `if timestamp < 3.0`
GRACE_PERIOD_MS == 3000
\* analyze_video: `if timestamp > 35.0: break`
SAFETY_STOP_MS == 35000
\* analyze_video: `actual_video_duration < 5.0`, `> 40.0`, in tenths
MIN_VIDEO_DURATION == 50
MAX_VIDEO_DURATION == 400
\* analyze_video: extract_frames(video_path, target_fps=30)
target_fps == 30
\* FailureReason.TIME_COMPLETE: "Completed full 30 seconds"
TIME_BUDGET_MS == 30000

(***************************************************************************)
(* utils/video.py: extract_frames (the frames it emits)                    *)
(***************************************************************************)
\* the timestamps with the first one at 0
next_timestamp_ms_from_zero(count) == (count * 1000) \div target_fps

\* current_timestamp_ms = int(1 + processed_count * (1000.0 / target_fps));
\* in double arithmetic this is 1 + floor(processed_count * 1000 / 30) for
\* every count up to the safety stop
next_timestamp_ms(count) == 1 + (count * 1000) \div target_fps

(***************************************************************************)
(* services/mediapipe_processor.py                                         *)
(***************************************************************************)
\* a landmark is [x, y] in hundredths of the frame; a detected pose is
\* [lm |-> the landmarks by index], of which the model keeps the two ankles
\* (no decision of the analysis reads another landmark, z or the
\* visibility); the landmarker returns 33 landmarks or no pose at all
StandingSpots == {[x |-> 50, y |-> 90], [x |-> 56, y |-> 90]}
RaisedSpots == {[x |-> 45, y |-> 70], [x |-> 45, y |-> 88]}

support_ankle_idx(leg) == IF leg = "left" THEN LEFT_ANKLE ELSE RIGHT_ANKLE
raised_ankle_idx(leg) == IF leg = "left" THEN RIGHT_ANKLE ELSE LEFT_ANKLE

\* the poses of a video of a test on the given standing leg
Poses(leg) ==
    {[lm |-> f] : f \in
        {g \in [{LEFT_ANKLE, RIGHT_ANKLE} -> StandingSpots \cup RaisedSpots] :
            /\ g[support_ankle_idx(leg)] \in StandingSpots
            /\ g[raised_ankle_idx(leg)] \in RaisedSpots}}

\* what the landmarker finds in a frame: a pose or nothing
Detections(leg) == Poses(leg) \cup {None}

\* _check_foot_touchdown
_check_foot_touchdown(leg, lms) ==
    Abs(lms.lm[raised_ankle_idx(leg)].y - lms.lm[support_ankle_idx(leg)].y)
        < FOOT_TOUCHDOWN_THRESHOLD

\* _check_support_foot_moved: sqrt(dx^2 + dy^2) > threshold, squared
_check_support_foot_moved(leg, initial, lms) ==
    IF initial = None THEN FALSE
    ELSE LET current == lms.lm[support_ankle_idx(leg)]
             dx == current.x - initial.x
             dy == current.y - initial.y
         IN  dx * dx + dy * dy
               > SUPPORT_FOOT_MOVEMENT_THRESHOLD * SUPPORT_FOOT_MOVEMENT_THRESHOLD

\* check_failure without the countdown buffer
check_failure_no_grace(leg, initial, lms, ts) ==
    IF _check_foot_touchdown(leg, lms)
    THEN [failure |-> "foot_touchdown", initial |-> initial]
    ELSE IF _check_support_foot_moved(leg, initial, lms)
    THEN [failure |-> "support_foot_moved", initial |-> initial]
    ELSE [failure |-> "none", initial |-> initial]

\* check_failure with the support foot checked before the raised foot
check_failure_moved_first(leg, initial, lms, ts) ==
    IF ts < GRACE_PERIOD_MS
    THEN [failure |-> "none",
          initial |-> IF initial = None THEN lms.lm[support_ankle_idx(leg)]
                      ELSE initial]
    ELSE IF _check_support_foot_moved(leg, initial, lms)
    THEN [failure |-> "support_foot_moved", initial |-> initial]
    ELSE IF _check_foot_touchdown(leg, lms)
    THEN [failure |-> "foot_touchdown", initial |-> initial]
    ELSE [failure |-> "none", initial |-> initial]

\* FailureDetector.check_failure(landmarks, timestamp): the failure reason
\* ("none" for Python's None) and support_ankle_initial after the call
check_failure(leg, initial, lms, ts) ==
    IF ts < GRACE_PERIOD_MS
    THEN [failure |-> "none",
          initial |-> IF initial = None THEN lms.lm[support_ankle_idx(leg)]
                      ELSE initial]
    ELSE IF _check_foot_touchdown(leg, lms)
    THEN [failure |-> "foot_touchdown", initial |-> initial]
    ELSE IF _check_support_foot_moved(leg, initial, lms)
    THEN [failure |-> "support_foot_moved", initial |-> initial]
    ELSE [failure |-> "none", initial |-> initial]

\* the last two timestamps the landmarker has received, after one more
received_after(received, ts) ==
    IF Len(received) < 2 THEN Append(received, ts)
    ELSE <<received[2], ts>>

\* PoseProcessor.process_frame(frame, timestamp_ms) when the landmarker
\* answers with the given detection: the frame is counted, the landmarker
\* is called with the timestamp whatever the previous one was (a timestamp
\* that is not larger is only logged, and only for the first 5 frames), and
\* the timestamp is remembered
process_frame(timestamp_ms, detection) ==
    /\ frame_count' = frame_count + 1
    /\ tracker_received' = received_after(tracker_received, timestamp_ms)
    /\ last_timestamp_ms' = timestamp_ms
    /\ landmarks' = detection
    /\ UNCHANGED landmarker

\* PoseProcessor.close()
close == landmarker' = "closed"

(***************************************************************************)
(* utils/filtering.py                                                      *)
(***************************************************************************)
\* butter_lowpass_filter pads a trajectory of n samples to n + 2*min(n-1, 10)
\* and hands it to signal.filtfilt, which raises ValueError unless the input
\* is longer than its default padlen, 3 * max(len(a), len(b)), the filter of
\* order 2 having 3 coefficients on each side
FILTER_ORDER == 2
FILTFILT_PADLEN == 3 * (FILTER_ORDER + 1)
padded_length(n) == n + 2 * Min(n - 1, 10)

\* filter_landmarks returns a list of this many frames as it is
too_short_below_two(num_frames) == num_frames < 2
too_short_to_filter(num_frames) == num_frames < 3

\* filter_landmarks(landmarks) raises for this many frames
filter_landmarks_raises(num_frames) ==
    /\ ~too_short_to_filter(num_frames)
    /\ padded_length(num_frames) <= FILTFILT_PADLEN

(***************************************************************************)
(* services/analysis.py: analyze_video                                     *)
(***************************************************************************)
\* int(timestamp * 1000) of the timestamp current_timestamp_ms / 1000.0: the
\* double product falls just below the integer for these frames of the 30 fps
\* grid, and the truncation gives one millisecond less
FloatTruncated ==
    {1001, 2034, 8001, 16034, 16301, 32001, 32367, 32434, 32501}
timestamp_ms_of(ts) == IF ts \in FloatTruncated THEN ts - 1 ELSE ts

raised(error) == [kind |-> "raised", error |-> error]
returned(test_duration, reason) ==
    [kind |-> "returned", duration |-> test_duration, failure_reason |-> reason]

\* the validation with the coverage test made inclusive
data_quality_error_inclusive(processed, with_pose) ==
    IF processed = 0 THEN "no_frames"
    ELSE IF with_pose = 0 THEN "no_person"
    ELSE IF 2 * with_pose <= processed THEN "insufficient_pose"
    ELSE "none"

\* the data-quality validation after the frame loop: the error it raises,
\* "none" when the data pass
data_quality_error(processed, with_pose) ==
    IF processed = 0 THEN "no_frames"
    ELSE IF with_pose = 0 THEN "no_person"
    ELSE IF 2 * with_pose < processed THEN "insufficient_pose"
    ELSE "none"

\* the state no call has touched
VideoIdle ==
    /\ pc = "idle"
    /\ client_duration = 0
    /\ leg_tested = "left"
    /\ landmarker = "none"
    /\ frame_count = 0
    /\ last_timestamp_ms = -1
    /\ tracker_received = <<>>
    /\ landmarks = None
    /\ support_ankle_initial = None
    /\ processed_count = 0
    /\ current_timestamp_ms = 1
    /\ frames_processed = 0
    /\ frames_with_pose = 0
    /\ failure_reason = "none"
    /\ timestamp = 0
    /\ last_timestamp = 0
    /\ uploaded = FALSE
    /\ outcome = None

\* the durations a client reports, around the two limits
ClientDurations ==
    {MIN_VIDEO_DURATION - 1, MIN_VIDEO_DURATION,
     MAX_VIDEO_DURATION, MAX_VIDEO_DURATION + 1}

\* analyze_video(video_path, leg_tested, client_duration) is called
VideoInit ==
    /\ pc = "start"
    /\ client_duration \in ClientDurations
    /\ leg_tested \in {"left", "right"}
    /\ landmarker = "none"
    /\ frame_count = 0
    /\ last_timestamp_ms = -1
    /\ tracker_received = <<>>
    /\ landmarks = None
    /\ support_ankle_initial = None
    /\ processed_count = 0
    /\ current_timestamp_ms = 1
    /\ frames_processed = 0
    /\ frames_with_pose = 0
    /\ failure_reason = "none"
    /\ timestamp = 0
    /\ last_timestamp = 0
    /\ uploaded = FALSE
    /\ outcome = None

\* processor = PoseProcessor(); detector = FailureDetector(leg_tested)
CreateProcessor ==
    /\ pc = "start"
    /\ landmarker' = "open"
    /\ frame_count' = 0
    /\ last_timestamp_ms' = -1
    /\ support_ankle_initial' = None
    /\ pc' = "validate_duration"
    /\ UNCHANGED <<tracker_received, landmarks, leg_tested, framesVars,
                   client_duration, frames_processed, frames_with_pose,
                   failure_reason, timestamp, last_timestamp, uploaded,
                   outcome>>
    /\ UNCHANGED notVideo

\* create_landmarker raises RuntimeError: no processor exists
CreateProcessorFails ==
    /\ pc = "start"
    /\ pc' = "done"
    /\ outcome' = raised("landmarker_init_failed")
    /\ UNCHANGED <<processorVars, detectorVars, framesVars, client_duration,
                   frames_processed, frames_with_pose, failure_reason,
                   timestamp, last_timestamp, uploaded>>
    /\ UNCHANGED notVideo

\* the two tests of the client-provided duration: which ValueError is
\* raised, "none" when the duration passes
duration_error_exclusive(d) ==
    IF d <= MIN_VIDEO_DURATION THEN "too_short"
    ELSE IF d >= MAX_VIDEO_DURATION THEN "too_long"
    ELSE "none"

duration_error(d) ==
    IF d < MIN_VIDEO_DURATION THEN "too_short"
    ELSE IF d > MAX_VIDEO_DURATION THEN "too_long"
    ELSE "none"

\* the duration validation, before the try block: a rejected clip raises
\* without reaching `finally`; otherwise the locals are initialised
ValidateDuration ==
    /\ pc = "validate_duration"
    /\ IF duration_error(client_duration) # "none"
       THEN /\ outcome' = raised(duration_error(client_duration))
            /\ pc' = "done"
            /\ UNCHANGED failure_reason
       ELSE /\ failure_reason' = "time_complete"
            /\ pc' = "open_video"
            /\ UNCHANGED outcome
    /\ UNCHANGED <<processorVars, detectorVars, framesVars, client_duration,
                   frames_processed, frames_with_pose, timestamp,
                   last_timestamp, uploaded>>
    /\ UNCHANGED notVideo

\* the first pass of `for frame, timestamp in extract_frames(...)`: the
\* capture opens
OpenVideo ==
    /\ pc = "open_video"
    /\ processed_count' = 0
    /\ current_timestamp_ms' = 1
    /\ pc' = "frames"
    /\ UNCHANGED <<processorVars, detectorVars, client_duration,
                   frames_processed, frames_with_pose, failure_reason,
                   timestamp, last_timestamp, uploaded, outcome>>
    /\ UNCHANGED notVideo

\* the capture does not open: extract_frames raises ValueError inside the
\* try block, and `finally` closes the processor
OpenVideoFails ==
    /\ pc = "open_video"
    /\ outcome' = raised("cannot_open")
    /\ close
    /\ pc' = "done"
    /\ UNCHANGED <<frame_count, last_timestamp_ms, tracker_received, landmarks,
                   detectorVars, framesVars, client_duration, frames_processed,
                   frames_with_pose, failure_reason, timestamp, last_timestamp,
                   uploaded>>
    /\ UNCHANGED notVideo

\* one pass of the frame loop: extract_frames yields the next frame, the
\* processor looks for a pose, the detector checks a detected pose, and the
\* loop breaks on a failure or past the safety stop
NextFrame ==
    /\ pc = "frames"
    /\ \E detection \in Detections(leg_tested) :
        /\ detection = None => frames_processed - frames_with_pose < MaxNoPose
        /\ LET ts == current_timestamp_ms
               checked ==
                   IF detection = None
                   THEN [failure |-> "none", initial |-> support_ankle_initial]
                   ELSE check_failure(leg_tested, support_ankle_initial,
                                      detection, ts)
               stop == checked.failure # "none" \/ ts > SAFETY_STOP_MS
           IN  /\ frames_processed' = frames_processed + 1
               /\ timestamp' = ts
               /\ process_frame(timestamp_ms_of(ts), detection)
               /\ frames_with_pose' =
                      IF detection = None THEN frames_with_pose
                      ELSE frames_with_pose + 1
               /\ last_timestamp' =
                      IF detection = None THEN last_timestamp ELSE ts
               /\ support_ankle_initial' = checked.initial
               /\ failure_reason' =
                      IF checked.failure # "none" THEN checked.failure
                      ELSE failure_reason
               /\ pc' = IF stop THEN "validate_data" ELSE "frames"
               /\ processed_count' =
                      IF stop THEN processed_count ELSE processed_count + 1
               /\ current_timestamp_ms' =
                      IF stop THEN current_timestamp_ms
                      ELSE next_timestamp_ms(processed_count + 1)
    /\ UNCHANGED <<leg_tested, client_duration, uploaded, outcome>>
    /\ UNCHANGED notVideo

\* cap.read() has no more frames: the loop ends
EndOfVideo ==
    /\ pc = "frames"
    /\ pc' = "validate_data"
    /\ UNCHANGED <<processorVars, detectorVars, framesVars, client_duration,
                   frames_processed, frames_with_pose, failure_reason,
                   timestamp, last_timestamp, uploaded, outcome>>
    /\ UNCHANGED notVideo

\* "Validate we have enough data": the first failing test raises, and
\* `finally` closes the processor
ValidateData ==
    /\ pc = "validate_data"
    /\ LET error == data_quality_error(frames_processed, frames_with_pose)
       IN  IF error # "none"
           THEN /\ outcome' = raised(error)
                /\ close
                /\ pc' = "done"
           ELSE /\ pc' = "save"
                /\ UNCHANGED <<outcome, landmarker>>
    /\ UNCHANGED <<frame_count, last_timestamp_ms, tracker_received, landmarks,
                   detectorVars, framesVars, client_duration, frames_processed,
                   frames_with_pose, failure_reason, timestamp, last_timestamp,
                   uploaded>>
    /\ UNCHANGED notVideo

\* filter_landmarks, test_duration = timestamps[-1], the upload of the
\* keypoints and the return; `finally` closes the processor on each way out
FilterAndSave ==
    /\ pc = "save"
    /\ IF filter_landmarks_raises(frames_with_pose)
       THEN /\ outcome' = raised("filter_failed")
            /\ UNCHANGED uploaded
       ELSE \/ /\ uploaded' = TRUE
               /\ outcome' = returned(last_timestamp, failure_reason)
            \/ /\ outcome' = raised("upload_failed")
               /\ UNCHANGED uploaded
    /\ close
    /\ pc' = "done"
    /\ UNCHANGED <<frame_count, last_timestamp_ms, tracker_received, landmarks,
                   detectorVars, framesVars, client_duration, frames_processed,
                   frames_with_pose, failure_reason, timestamp,
                   last_timestamp>>
    /\ UNCHANGED notVideo

(***************************************************************************)
(* PoseProcessor called directly, with any timestamps                      *)
(***************************************************************************)
\* a PoseProcessor and a FailureDetector after construction
ProcessorInit ==
    /\ pc = "idle"
    /\ client_duration = 0
    /\ leg_tested \in {"left", "right"}
    /\ landmarker = "open"
    /\ frame_count = 0
    /\ last_timestamp_ms = -1
    /\ tracker_received = <<>>
    /\ landmarks = None
    /\ support_ankle_initial = None
    /\ processed_count = 0
    /\ current_timestamp_ms = 1
    /\ frames_processed = 0
    /\ frames_with_pose = 0
    /\ failure_reason = "none"
    /\ timestamp = 0
    /\ last_timestamp = 0
    /\ uploaded = FALSE
    /\ outcome = None

\* processor.process_frame(frame, timestamp_ms), the landmarker answering
CallProcessFrame ==
    /\ landmarker = "open"
    /\ frame_count < MaxCalls
    /\ \E ts \in 0..MaxTimestampMs, detection \in Detections(leg_tested) :
        process_frame(ts, detection)
    /\ outcome' = None
    /\ UNCHANGED <<detectorVars, framesVars, pc, client_duration,
                   frames_processed, frames_with_pose, failure_reason,
                   timestamp, last_timestamp, uploaded>>
    /\ UNCHANGED notVideo

\* the same call when detect_for_video raises on a timestamp that is not
\* larger than the one before: the error leaves process_frame before
\* last_timestamp_ms is assigned
LandmarkerRejects ==
    /\ landmarker = "open"
    /\ frame_count < MaxCalls
    /\ \E ts \in 0..MaxTimestampMs :
        /\ ts <= last_timestamp_ms
        /\ frame_count' = frame_count + 1
        /\ tracker_received' = received_after(tracker_received, ts)
    /\ outcome' = raised("landmarker_error")
    /\ UNCHANGED <<landmarker, last_timestamp_ms, landmarks, detectorVars,
                   framesVars, pc, client_duration, frames_processed,
                   frames_with_pose, failure_reason, timestamp,
                   last_timestamp, uploaded>>
    /\ UNCHANGED notVideo

(***************************************************************************)
(* Concurrent requests: analyze_video (a PoseProcessor per call) and the   *)
(* module-level mediapipe_service (services/mediapipe_service.py)          *)
(***************************************************************************)
Requests == 1..MaxRequests
\* the instance of mediapipe_service, created when the module is imported;
\* the PoseProcessor of request r is instance r
service_instance == 0
Instances == {service_instance} \cup Requests

no_instance == [state |-> "none", videos |-> {}, received |-> <<>>]
fresh_instance == [state |-> "open", videos |-> {}, received |-> <<>>]
idle_request == [pc |-> "idle", via |-> "none", emitted |-> 0]

\* the state no request has touched and no module has set up
RequestsIdle ==
    /\ requests = [r \in Requests |-> idle_request]
    /\ instances = [i \in Instances |-> no_instance]

\* the process after its modules are imported:
\* mediapipe_service = MediaPipeService() has built self.pose
RequestsInit ==
    /\ requests = [r \in Requests |-> idle_request]
    /\ instances = [i \in Instances |->
                        IF i = service_instance THEN fresh_instance
                        ELSE no_instance]

\* analyze_video is called for request r: processor = PoseProcessor()
AnalyzeVideoStart(r) ==
    /\ requests[r].pc = "idle"
    /\ requests' = [requests EXCEPT ![r] =
            [pc |-> "frames", via |-> "analyze_video", emitted |-> 0]]
    /\ instances' = [instances EXCEPT ![r] = fresh_instance]
    /\ UNCHANGED notRequests

\* one pass of analyze_video's frame loop for request r:
\* processor.process_frame(frame, timestamp_ms)
AnalyzeVideoFrame(r) ==
    /\ requests[r].pc = "frames"
    /\ requests[r].via = "analyze_video"
    /\ requests[r].emitted < MaxFrames
    /\ LET ts == timestamp_ms_of(next_timestamp_ms(requests[r].emitted))
       IN  instances' = [instances EXCEPT ![r] =
               [state |-> @.state,
                videos |-> @.videos \cup {r},
                received |-> received_after(@.received, ts)]]
    /\ requests' = [requests EXCEPT ![r].emitted = @ + 1]
    /\ UNCHANGED notRequests

\* analyze_video leaves its try block: processor.close()
AnalyzeVideoEnd(r) ==
    /\ requests[r].pc = "frames"
    /\ requests[r].via = "analyze_video"
    /\ requests' = [requests EXCEPT ![r].pc = "done"]
    /\ instances' = [instances EXCEPT ![r].state = "closed"]
    /\ UNCHANGED notRequests

\* mediapipe_service.extract_landmarks_from_video is called for request r
ExtractLandmarksStart(r) ==
    /\ requests[r].pc = "idle"
    /\ requests' = [requests EXCEPT ![r] =
            [pc |-> "frames", via |-> "mediapipe_service", emitted |-> 0]]
    /\ UNCHANGED instances
    /\ UNCHANGED notRequests

\* one pass of its frame loop: self.pose.process(rgb_frame), on the
\* instance every call of the service uses; no timestamp is passed
ExtractLandmarksFrame(r) ==
    /\ requests[r].pc = "frames"
    /\ requests[r].via = "mediapipe_service"
    /\ requests[r].emitted < MaxFrames
    /\ instances' = [instances EXCEPT ![service_instance].videos =
                         @ \cup {r}]
    /\ requests' = [requests EXCEPT ![r].emitted = @ + 1]
    /\ UNCHANGED notRequests

\* cap.read() has no more frames: the call returns, self.pose stays
ExtractLandmarksEnd(r) ==
    /\ requests[r].pc = "frames"
    /\ requests[r].via = "mediapipe_service"
    /\ requests' = [requests EXCEPT ![r].pc = "done"]
    /\ UNCHANGED instances
    /\ UNCHANGED notRequests

AnalyzeVideoStarts == \E r \in Requests : AnalyzeVideoStart(r)
AnalyzeVideoFrames == \E r \in Requests : AnalyzeVideoFrame(r)
AnalyzeVideoEnds == \E r \in Requests : AnalyzeVideoEnd(r)
ExtractLandmarksStarts == \E r \in Requests : ExtractLandmarksStart(r)
ExtractLandmarksFrames == \E r \in Requests : ExtractLandmarksFrame(r)
ExtractLandmarksEnds == \E r \in Requests : ExtractLandmarksEnd(r)

(***************************************************************************)
(* utils/video.py: extract_frames, frame by frame                          *)
(***************************************************************************)
\* frame rates a container reports (whole frames per second), invalid ones
\* included
ReportedFps == {0, 15, 29, 30, 45, 50, 59, 60, 90, 120, 121}
FALLBACK_FPS == 30
MAX_SOURCE_FPS == 120

\* "Validate and fallback for FPS"
validated_fps(fps) ==
    IF fps <= 0 \/ fps > MAX_SOURCE_FPS THEN FALLBACK_FPS ELSE fps

\* frame_interval = max(1, int(source_fps / target_fps))
frame_interval_of(fps) == Max(1, fps \div target_fps)

idle_generator ==
    [open |-> FALSE, reported_fps |-> 0, source_fps |-> 0,
     frame_interval |-> 1, frame_count |-> 0, processed_count |-> 0,
     current_timestamp_ms |-> 1]

CaptureIdle ==
    /\ generator = idle_generator
    /\ yielded = <<>>
    /\ passed = <<>>

\* the generator up to its `while True`
CaptureInit ==
    /\ \E fps \in ReportedFps :
        generator =
            [open |-> TRUE, reported_fps |-> fps,
             source_fps |-> validated_fps(fps),
             frame_interval |-> frame_interval_of(validated_fps(fps)),
             frame_count |-> 0, processed_count |-> 0,
             current_timestamp_ms |-> 1]
    /\ yielded = <<>>
    /\ passed = <<>>

\* one pass of `while True`: cap.read() gives a frame; every
\* frame_interval-th one is yielded with the current timestamp, the frame
\* loop derives timestamp_ms = int(timestamp * 1000) from it, and the
\* generator advances its count and timestamp
ReadFrame ==
    /\ generator.open
    /\ generator.processed_count < MaxEmitted
    /\ IF generator.frame_count % generator.frame_interval = 0
       THEN /\ yielded' =
                   received_after(yielded, generator.current_timestamp_ms)
            /\ passed' =
                   received_after(passed,
                       timestamp_ms_of(generator.current_timestamp_ms))
            /\ generator' =
                   [generator EXCEPT
                       !.processed_count = @ + 1,
                       !.current_timestamp_ms =
                           next_timestamp_ms(generator.processed_count + 1),
                       !.frame_count = @ + 1]
       ELSE /\ generator' = [generator EXCEPT !.frame_count = @ + 1]
            /\ UNCHANGED <<yielded, passed>>
    /\ UNCHANGED notCapture

\* cap.read() gives nothing: the loop ends and the capture is released
ReleaseCapture ==
    /\ generator.open
    /\ generator' = [generator EXCEPT !.open = FALSE]
    /\ UNCHANGED <<yielded, passed>>
    /\ UNCHANGED notCapture

(***************************************************************************)
(* services/metrics.py: MetricsCalculator                                  *)
(*                                                                         *)
(* Coordinates, lengths and the sway figures are in hundredths of the      *)
(* unit, angles in whole degrees (hundredths once averaged), durations in  *)
(* centiseconds; a square root is rounded down to the unit.                *)
(***************************************************************************)
LEFT_SHOULDER == 11
RIGHT_SHOULDER == 12
LEFT_WRIST == 15
RIGHT_WRIST == 16
LEFT_HIP == 23
RIGHT_HIP == 24

\* constants/scoring.py: DURATION_SCORE_LABELS
DURATION_SCORE_LABELS ==
    <<"Beginning", "Developing", "Competent", "Proficient", "Advanced">>

\* constants/scoring.py: STABILITY_WEIGHTS, in hundredths
STABILITY_WEIGHTS ==
    [sway_std |-> 25, sway_velocity |-> 30, arm_excursion |-> 25,
     corrections |-> 20]

\* constants/scoring.py: CORRECTION_THRESHOLD, 0.02
CORRECTION_THRESHOLD == 2

\* constants/scoring.py: REFERENCE_VALUES with the four keys it defines
\* (8.0, 5.0 and 45.0 in hundredths, the corrections ceiling as a count)
REFERENCE_VALUES ==
    [sway_std_max |-> 800, sway_velocity_max |-> 500, arm_angle_max |-> 4500,
     corrections_max |-> 15]

\* REFERENCE_VALUES[key]: a dict subscript raises KeyError for a missing key
reference_value(key) ==
    IF key \in DOMAIN REFERENCE_VALUES
    THEN [value |-> REFERENCE_VALUES[key]]
    ELSE [raised |-> "KeyError", key |-> key]

has_raised(r) == "raised" \in DOMAIN r

\* np.sqrt on a non-negative number, rounded down
RECURSIVE sqrt_between(_, _, _)
sqrt_between(lo, hi, v) ==
    IF lo >= hi THEN lo
    ELSE LET mid == (lo + hi + 1) \div 2
         IN  IF mid * mid <= v
             THEN sqrt_between(mid, hi, v)
             ELSE sqrt_between(lo, mid - 1, v)

sqrt(v) == sqrt_between(0, Min(v, 46340), v)

\* utils/math_utils.py: calculate_euclidean_distance
calculate_euclidean_distance(p1, p2) ==
    sqrt((p1[1] - p2[1]) * (p1[1] - p2[1]) + (p1[2] - p2[2]) * (p1[2] - p2[2]))

\* utils/math_utils.py: calculate_path_length
RECURSIVE path_length_from(_, _)
path_length_from(points, i) ==
    IF i > Len(points) THEN 0
    ELSE calculate_euclidean_distance(points[i - 1], points[i])
         + path_length_from(points, i + 1)

calculate_path_length(points) ==
    IF Len(points) < 2 THEN 0 ELSE path_length_from(points, 2)

\* utils/math_utils.py: count_threshold_crossings from value i on; the
\* center is the quotient center[1] / center[2], so the distance from it is
\* compared after multiplying through by center[2]
\* count_threshold_crossings counting a correction as soon as the signal
\* moves outside the threshold
RECURSIVE crossings_counted_on_leaving(_, _, _, _, _)
crossings_counted_on_leaving(values, i, threshold, center, outside) ==
    IF i > Len(values) THEN 0
    ELSE LET distance_from_center ==
                 Abs(center[2] * values[i] - center[1])
             scaled_threshold == threshold * center[2]
         IN  IF ~outside /\ distance_from_center > scaled_threshold
             THEN 1 + crossings_counted_on_leaving(values, i + 1, threshold,
                                                   center, TRUE)
             ELSE IF outside /\ distance_from_center < scaled_threshold
             THEN crossings_counted_on_leaving(values, i + 1, threshold,
                                               center, FALSE)
             ELSE crossings_counted_on_leaving(values, i + 1, threshold,
                                               center, outside)

RECURSIVE crossings_from(_, _, _, _, _)
crossings_from(values, i, threshold, center, outside) ==
    IF i > Len(values) THEN 0
    ELSE LET distance_from_center ==
                 Abs(center[2] * values[i] - center[1])
             scaled_threshold == threshold * center[2]
         IN  IF ~outside /\ distance_from_center > scaled_threshold
             THEN crossings_from(values, i + 1, threshold, center, TRUE)
             ELSE IF outside /\ distance_from_center < scaled_threshold
             THEN 1 + crossings_from(values, i + 1, threshold, center, FALSE)
             ELSE crossings_from(values, i + 1, threshold, center, outside)

count_threshold_crossings(values, threshold, center) ==
    crossings_from(values, 1, threshold, center, FALSE)

\* np.arctan2(dy, dx) in degrees, on the offsets that give a multiple of 45
arctan2_degrees(dy, dx) ==
    CASE dy = 0 /\ dx >= 0 -> 0
      [] dy = 0 /\ dx < 0 -> 180
      [] dy > 0 /\ dx = 0 -> 90
      [] dy < 0 /\ dx = 0 -> -90
      [] dy > 0 /\ dx = dy -> 45
      [] dy > 0 /\ dx = -dy -> 135
      [] dy < 0 /\ dx = -dy -> -45
      [] dy < 0 /\ dx = dy -> -135

\* _get_hip_trajectory: the midpoint of the two hips, frame by frame
_get_hip_trajectory(frames) ==
    [i \in 1..Len(frames) |->
        <<(frames[i][LEFT_HIP][1] + frames[i][RIGHT_HIP][1]) \div 2,
          (frames[i][LEFT_HIP][2] + frames[i][RIGHT_HIP][2]) \div 2>>]

\* np.std of a non-empty list: the population standard deviation
std(values) ==
    LET n == Len(values)
        squares == [i \in 1..n |-> values[i] * values[i]]
    IN  sqrt(n * Sum(squares) - Sum(values) * Sum(values)) \div n

\* _calculate_sway_std
_calculate_sway_std(hip_trajectory) ==
    IF hip_trajectory = <<>> THEN <<0, 0>>
    ELSE <<std([i \in 1..Len(hip_trajectory) |-> hip_trajectory[i][1]]),
           std([i \in 1..Len(hip_trajectory) |-> hip_trajectory[i][2]])>>

\* the shoulder-to-wrist angle of one arm in one frame
arm_angle(frame, shoulder, wrist) ==
    arctan2_degrees(frame[wrist][2] - frame[shoulder][2],
                    frame[wrist][1] - frame[shoulder][1])

\* _calculate_arm_excursion: the summed absolute change of the angle
RECURSIVE arm_total_from(_, _, _, _)
arm_total_from(frames, i, shoulder, wrist) ==
    IF i > Len(frames) THEN 0
    ELSE Abs(arm_angle(frames[i], shoulder, wrist)
             - arm_angle(frames[i - 1], shoulder, wrist))
         + arm_total_from(frames, i + 1, shoulder, wrist)

_calculate_arm_excursion(frames) ==
    <<arm_total_from(frames, 2, LEFT_SHOULDER, LEFT_WRIST),
      arm_total_from(frames, 2, RIGHT_SHOULDER, RIGHT_WRIST)>>

\* _count_corrections: crossings of the threshold around the mean x
_count_corrections(hip_trajectory) ==
    IF hip_trajectory = <<>> THEN 0
    ELSE LET x_values ==
                 [i \in 1..Len(hip_trajectory) |-> hip_trajectory[i][1]]
         IN  count_threshold_crossings(x_values, CORRECTION_THRESHOLD,
                                       <<Sum(x_values), Len(x_values)>>)

\* min(value / ceiling, 1.0), in thousandths
normalized(value, ceiling) == Min((value * 1000) \div ceiling, 1000)

\* _calculate_stability_score: the four ceilings are looked up in the order
\* of the statements, and the first missing key ends the call; the score is
\* in tenths of a point, clamped to 0..100
_calculate_stability_score(sway_std, sway_velocity, arm_excursion, corrections) ==
    LET sway_std_max == reference_value("sway_std_max")
        sway_velocity_max == reference_value("sway_velocity_max")
        arm_excursion_max == reference_value("arm_excursion_max")
        corrections_max == reference_value("corrections_max")
    IN  IF has_raised(sway_std_max) THEN sway_std_max
        ELSE IF has_raised(sway_velocity_max) THEN sway_velocity_max
        ELSE IF has_raised(arm_excursion_max) THEN arm_excursion_max
        ELSE IF has_raised(corrections_max) THEN corrections_max
        ELSE LET norm_sway == normalized(sway_std, sway_std_max.value)
                 norm_velocity ==
                     normalized(sway_velocity, sway_velocity_max.value)
                 norm_arm == normalized(arm_excursion, arm_excursion_max.value)
                 norm_corrections ==
                     normalized(corrections, corrections_max.value)
                 weighted_avg ==
                     (STABILITY_WEIGHTS.sway_std * norm_sway
                      + STABILITY_WEIGHTS.sway_velocity * norm_velocity
                      + STABILITY_WEIGHTS.arm_excursion * norm_arm
                      + STABILITY_WEIGHTS.corrections * norm_corrections)
                     \div 100
             IN  [value |-> Max(0, Min(1000, 1000 - weighted_avg))]

\* _empty_metrics
_empty_metrics ==
    [duration_seconds |-> 0, stability_score |-> 0, sway_std_x |-> 0,
     sway_std_y |-> 0, sway_path_length |-> 0, sway_velocity |-> 0,
     arm_excursion_left |-> 0, arm_excursion_right |-> 0,
     arm_asymmetry_ratio |-> <<1, 1>>, corrections_count |-> 0,
     duration_score |-> 1, duration_score_label |-> "Beginning"]

\* calculate_all on the calculator's landmarks and duration: the record of
\* metrics, or the exception that left the call
calculate_all(frames, test_duration) ==
    IF frames = <<>> THEN _empty_metrics
    ELSE LET hip_trajectory == _get_hip_trajectory(frames)
             sway_std == _calculate_sway_std(hip_trajectory)
             sway_path_length == calculate_path_length(hip_trajectory)
             sway_velocity ==
                 IF test_duration > 0
                 THEN (sway_path_length * 100) \div test_duration
                 ELSE 0
             arm == _calculate_arm_excursion(frames)
             arm_asymmetry == IF arm[2] > 0 THEN <<arm[1], arm[2]>> ELSE <<1, 1>>
             corrections == _count_corrections(hip_trajectory)
             stability_score ==
                 _calculate_stability_score(sway_std[1] + sway_std[2],
                                            sway_velocity,
                                            ((arm[1] + arm[2]) * 100) \div 2,
                                            corrections)
         IN  IF has_raised(stability_score) THEN stability_score
             ELSE [duration_seconds |-> test_duration,
                   stability_score |-> stability_score.value,
                   sway_std_x |-> sway_std[1],
                   sway_std_y |-> sway_std[2],
                   sway_path_length |-> sway_path_length,
                   sway_velocity |-> sway_velocity,
                   arm_excursion_left |-> arm[1],
                   arm_excursion_right |-> arm[2],
                   arm_asymmetry_ratio |-> arm_asymmetry,
                   corrections_count |-> corrections,
                   duration_score |-> get_duration_score(test_duration),
                   duration_score_label |->
                       DURATION_SCORE_LABELS[get_duration_score(test_duration)]]

\* the landmarks of a frame that the calculator reads
UsedLandmarks ==
    {LEFT_SHOULDER, RIGHT_SHOULDER, LEFT_WRIST, RIGHT_WRIST, LEFT_HIP,
     RIGHT_HIP}

\* where the hip centre stands (x), and where a wrist hangs from its
\* shoulder (offset in x and y)
HipCentres == {46, 50, 54}
WristOffsets == {<<0, 20>>, <<20, 20>>}

\* a frame with the hips around the centre and each wrist at its offset
frame_of(hip_x, left_offset, right_offset) ==
    [l \in UsedLandmarks |->
        CASE l = LEFT_HIP -> <<hip_x + 5, 60>>
          [] l = RIGHT_HIP -> <<hip_x - 5, 60>>
          [] l = LEFT_SHOULDER -> <<60, 30>>
          [] l = RIGHT_SHOULDER -> <<40, 30>>
          [] l = LEFT_WRIST -> <<60 + left_offset[1], 30 + left_offset[2]>>
          [] l = RIGHT_WRIST -> <<40 - right_offset[1], 30 + right_offset[2]>>]

FilteredFrames ==
    {frame_of(h, l, r) : h \in HipCentres, l \in WristOffsets,
                         r \in WristOffsets}

RECURSIVE frames_of_length(_)
frames_of_length(n) ==
    IF n = 0 THEN {<<>>}
    ELSE {Append(t, f) : t \in frames_of_length(n - 1), f \in FilteredFrames}

FilteredTrajectories ==
    UNION {frames_of_length(n) : n \in 0..MaxTrajectory}

\* the measured hold, in centiseconds
TestDurations == {0, 500, 1200, 3000}

\* the variables of the calculator while another component is observed
MetricsIdle ==
    /\ filtered_landmarks = <<>>
    /\ calc_duration = 0
    /\ all_metrics = None

\* MetricsCalculator(filtered_landmarks, timestamps, duration, ...)
MetricsInit ==
    /\ filtered_landmarks \in FilteredTrajectories
    /\ calc_duration \in TestDurations
    /\ all_metrics = None

\* calculator.calculate_all()
CalculateAll ==
    /\ all_metrics = None
    /\ all_metrics' = calculate_all(filtered_landmarks, calc_duration)
    /\ UNCHANGED <<filtered_landmarks, calc_duration>>
    /\ UNCHANGED notMetrics

(***************************************************************************)
(* utils/filtering.py: filter_landmarks on a list of frames                *)
(*                                                                         *)
(* A frame is a list of landmarks (x, y, z, visibility).  The value the    *)
(* Butterworth filter gives sample i of a series is kept as the term       *)
(* [filtered |-> series, sample |-> i].                                    *)
(***************************************************************************)
\* butter_lowpass_filter(data)[i] once filtfilt has accepted the padded data
butter_lowpass_filter(data, i) == [filtered |-> data, sample |-> i]

\* filter_landmarks(landmarks, fps): the list itself when it is empty or
\* shorter than 3 frames; else ValueError out of filtfilt when the padded
\* trajectories are too short for it; else the frames with x and y filtered
\* along each landmark's trajectory and the original z and visibility
filter_landmarks(frames) ==
    IF frames = <<>> \/ too_short_to_filter(Len(frames))
    THEN [value |-> frames]
    ELSE IF padded_length(Len(frames)) <= FILTFILT_PADLEN
    THEN [raised |-> "ValueError"]
    ELSE LET num_frames == Len(frames)
             num_landmarks == Len(frames[1])
             x_coords(lm_idx) == [f \in 1..num_frames |-> frames[f][lm_idx][1]]
             y_coords(lm_idx) == [f \in 1..num_frames |-> frames[f][lm_idx][2]]
         IN  [value |->
                 [frame_idx \in 1..num_frames |->
                     [lm_idx \in 1..num_landmarks |->
                         <<butter_lowpass_filter(x_coords(lm_idx), frame_idx),
                           butter_lowpass_filter(y_coords(lm_idx), frame_idx),
                           frames[frame_idx][lm_idx][3],
                           frames[frame_idx][lm_idx][4]>>]]]

\* landmarks as (x, y, z, visibility): x, y, z in hundredths, visibility in
\* tenths; a frame here has two of them
RawLandmarks == {<<50, 50, 0, 9>>, <<52, 48, -3, 5>>}
RawFrames == {<<a, b>> : a \in RawLandmarks, b \in RawLandmarks}

RECURSIVE raw_frames_of_length(_)
raw_frames_of_length(n) ==
    IF n = 0 THEN {<<>>}
    ELSE {Append(t, f) : t \in raw_frames_of_length(n - 1), f \in RawFrames}

RawSequences == UNION {raw_frames_of_length(n) : n \in 0..MaxRawFrames}

\* the variables of filter_landmarks while another component is observed
FilterIdle ==
    /\ raw_landmarks = <<>>
    /\ filter_result = None

\* the argument of a call of filter_landmarks
FilterInit ==
    /\ raw_landmarks \in RawSequences
    /\ filter_result = None

\* filter_landmarks(raw_landmarks)
FilterLandmarks ==
    /\ filter_result = None
    /\ filter_result' = filter_landmarks(raw_landmarks)
    /\ UNCHANGED raw_landmarks
    /\ UNCHANGED notFilter

(***************************************************************************)
(* services/metrics.py: _count_corrections on a hip trajectory             *)
(***************************************************************************)
\* the x of the hip centre, frame by frame (hundredths), at a fixed height
HipXs == {44, 50, 51, 56}
HipPoints == {<<x, 60>> : x \in HipXs}

RECURSIVE points_of_length(_)
points_of_length(n) ==
    IF n = 0 THEN {<<>>}
    ELSE {Append(t, q) : t \in points_of_length(n - 1), q \in HipPoints}

HipTrajectories == UNION {points_of_length(n) : n \in 0..MaxSamples}

\* the variables of _count_corrections while another component is observed
CorrectionsIdle ==
    /\ hip_path = <<>>
    /\ corrections_counted = None

\* the hip trajectory of a calculator
CorrectionsInit ==
    /\ hip_path \in HipTrajectories
    /\ corrections_counted = None

\* self._count_corrections(hip_trajectory)
CountCorrections ==
    /\ corrections_counted = None
    /\ corrections_counted' = [count |-> _count_corrections(hip_path)]
    /\ UNCHANGED hip_path
    /\ UNCHANGED notCorrections

(***************************************************************************)
(* services/mediapipe_service.py: MediaPipeService.calculate_arm_metrics   *)
(*                                                                         *)
(* Coordinates in hundredths; a ratio is kept as numerator and denominator *)
(* and float('inf') as its own kind.                                       *)
(***************************************************************************)
finite_ratio(num, den) == [kind |-> "finite", num |-> num, den |-> den]
infinite_ratio == [kind |-> "inf"]

\* np.ptp: the range of a list of values
ptp(values) ==
    LET idx == 1..Len(values)
    IN  (CHOOSE v \in {values[i] : i \in idx} :
            \A i \in idx : values[i] <= v)
        - (CHOOSE v \in {values[i] : i \in idx} :
            \A i \in idx : values[i] >= v)

\* the asymmetry ratio of lines 372-376
arm_asymmetry_of(arm_excursion_left, arm_excursion_right) ==
    IF arm_excursion_right > 0
    THEN finite_ratio(arm_excursion_left, arm_excursion_right)
    ELSE IF arm_excursion_left = 0 THEN finite_ratio(1, 1)
    ELSE infinite_ratio

\* the loop of _count_threshold_crossings from position i on: with mean S/n
\* and standard deviation sqrt(n*Q - S*S)/n (S the sum, Q the sum of
\* squares), deviation > 2 * std  <=>  (n*pos - S)^2 > 4 * (n*Q - S*S)
RECURSIVE service_crossings_from(_, _, _)
service_crossings_from(positions, i, outside_threshold) ==
    IF i > Len(positions) THEN 0
    ELSE LET n == Len(positions)
             S == Sum(positions)
             Q == Sum([k \in 1..n |-> positions[k] * positions[k]])
             beyond_threshold ==
                 (n * positions[i] - S) * (n * positions[i] - S)
                     > 4 * (n * Q - S * S)
         IN  IF beyond_threshold
             THEN (IF outside_threshold THEN 0 ELSE 1)
                  + service_crossings_from(positions, i + 1, TRUE)
             ELSE service_crossings_from(positions, i + 1, FALSE)

\* MediaPipeService._count_threshold_crossings(positions)
_count_threshold_crossings(positions) ==
    IF Len(positions) < 10 THEN 0
    ELSE service_crossings_from(positions, 1, FALSE)

\* calculate_arm_metrics(frames_data): frames without landmarks are left
\* out; the wrist's distance from its shoulder is taken per frame, and the
\* excursion of an arm is the range of its distances
calculate_arm_metrics(frames) ==
    LET seen == SelectSeq(frames, LAMBDA f : f.landmarks # None)
        rel(f, wrist, shoulder) ==
            <<Abs(f.landmarks.lm[wrist].x - f.landmarks.lm[shoulder].x),
              Abs(f.landmarks.lm[wrist].y - f.landmarks.lm[shoulder].y)>>
        distance(f, wrist, shoulder) ==
            sqrt(rel(f, wrist, shoulder)[1] * rel(f, wrist, shoulder)[1]
                 + rel(f, wrist, shoulder)[2] * rel(f, wrist, shoulder)[2])
        left_wrist_positions ==
            [i \in 1..Len(seen) |-> distance(seen[i], LEFT_WRIST, LEFT_SHOULDER)]
        right_wrist_positions ==
            [i \in 1..Len(seen) |->
                distance(seen[i], RIGHT_WRIST, RIGHT_SHOULDER)]
        hip_deviations ==
            [i \in 1..Len(seen) |->
                (seen[i].landmarks.lm[LEFT_HIP].x
                 + seen[i].landmarks.lm[RIGHT_HIP].x) \div 2]
        arm_excursion_left ==
            IF left_wrist_positions # <<>> THEN ptp(left_wrist_positions) ELSE 0
        arm_excursion_right ==
            IF right_wrist_positions # <<>> THEN ptp(right_wrist_positions)
            ELSE 0
    IN  [armExcursionLeft |-> arm_excursion_left,
         armExcursionRight |-> arm_excursion_right,
         armAsymmetryRatio |->
             arm_asymmetry_of(arm_excursion_left, arm_excursion_right),
         correctionsCount |-> _count_threshold_crossings(hip_deviations)]

\* where a wrist is seen from its shoulder: distances 20, 20 and 30
ArmOffsets == {<<0, 20>>, <<12, 16>>, <<0, 30>>}

\* a frame of frames_data with landmarks, and one without
arm_frame(left_offset, right_offset) ==
    [landmarks |->
        [lm |-> [l \in UsedLandmarks |->
            CASE l = LEFT_HIP -> [x |-> 55, y |-> 60]
              [] l = RIGHT_HIP -> [x |-> 45, y |-> 60]
              [] l = LEFT_SHOULDER -> [x |-> 60, y |-> 30]
              [] l = RIGHT_SHOULDER -> [x |-> 40, y |-> 30]
              [] l = LEFT_WRIST ->
                    [x |-> 60 + left_offset[1], y |-> 30 + left_offset[2]]
              [] l = RIGHT_WRIST ->
                    [x |-> 40 - right_offset[1], y |-> 30 + right_offset[2]]]]]

ArmFrames ==
    {arm_frame(l, r) : l \in ArmOffsets, r \in ArmOffsets}
        \cup {[landmarks |-> None]}

RECURSIVE arm_frames_of_length(_)
arm_frames_of_length(n) ==
    IF n = 0 THEN {<<>>}
    ELSE {Append(t, f) : t \in arm_frames_of_length(n - 1), f \in ArmFrames}

ArmFrameLists == UNION {arm_frames_of_length(n) : n \in 0..MaxArmFrames}

\* the variables of calculate_arm_metrics while another component is
\* observed
ArmsIdle ==
    /\ frames_data = <<>>
    /\ arm_metrics = None

\* the frames_data argument of a call
ArmsInit ==
    /\ frames_data \in ArmFrameLists
    /\ arm_metrics = None

\* mediapipe_service.calculate_arm_metrics(frames_data)
CalculateArmMetrics ==
    /\ arm_metrics = None
    /\ arm_metrics' = calculate_arm_metrics(frames_data)
    /\ UNCHANGED frames_data
    /\ UNCHANGED notArms

(***************************************************************************)
(* Specifications, one per component observed                              *)
(***************************************************************************)
InitScore ==
    ScoreInit /\ BilateralIdle /\ TrendIdle /\ VideoIdle /\ RequestsIdle /\
    CaptureIdle /\ MetricsIdle /\ FilterIdle /\ CorrectionsIdle /\ ArmsIdle
NextScore == ScoreLonger
SpecScore == InitScore /\ [][NextScore]_vars

InitBilateral ==
    BilateralInit /\ ScoreIdle /\ TrendIdle /\ VideoIdle /\ RequestsIdle /\
    CaptureIdle /\ MetricsIdle /\ FilterIdle /\ CorrectionsIdle /\ ArmsIdle
NextBilateral == Compare
SpecBilateral == InitBilateral /\ [][NextBilateral]_vars

InitTrend ==
    TrendInit /\ ScoreIdle /\ BilateralIdle /\ VideoIdle /\ RequestsIdle /\
    CaptureIdle /\ MetricsIdle /\ FilterIdle /\ CorrectionsIdle /\ ArmsIdle
NextTrend == AddAssessment \/ AnalyzeTrend
SpecTrend == InitTrend /\ [][NextTrend]_vars

InitTrendCalls ==
    CallsInit /\ ScoreIdle /\ BilateralIdle /\ VideoIdle /\ RequestsIdle /\
    CaptureIdle /\ MetricsIdle /\ FilterIdle /\ CorrectionsIdle /\ ArmsIdle
NextTrendCalls == CallAnalyzeTrend \/ Resupply
SpecTrendCalls == InitTrendCalls /\ [][NextTrendCalls]_vars


InitVideo ==
    VideoInit /\ ScoreIdle /\ BilateralIdle /\ TrendIdle /\ RequestsIdle /\
    CaptureIdle /\ MetricsIdle /\ FilterIdle /\ CorrectionsIdle /\ ArmsIdle
NextVideo ==
    \/ CreateProcessor
    \/ CreateProcessorFails
    \/ ValidateDuration
    \/ OpenVideo
    \/ OpenVideoFails
    \/ NextFrame
    \/ EndOfVideo
    \/ ValidateData
    \/ FilterAndSave
SpecVideo == InitVideo /\ [][NextVideo]_vars

InitProcessor ==
    ProcessorInit /\ ScoreIdle /\ BilateralIdle /\ TrendIdle /\
    RequestsIdle /\ CaptureIdle /\ MetricsIdle /\ FilterIdle /\
    CorrectionsIdle /\ ArmsIdle
NextProcessor == CallProcessFrame \/ LandmarkerRejects
SpecProcessor == InitProcessor /\ [][NextProcessor]_vars

InitRequests ==
    RequestsInit /\ ScoreIdle /\ BilateralIdle /\ TrendIdle /\ VideoIdle /\
    CaptureIdle /\ MetricsIdle /\ FilterIdle /\ CorrectionsIdle /\ ArmsIdle
NextRequests ==
    \/ AnalyzeVideoStarts
    \/ AnalyzeVideoFrames
    \/ AnalyzeVideoEnds
    \/ ExtractLandmarksStarts
    \/ ExtractLandmarksFrames
    \/ ExtractLandmarksEnds
SpecRequests == InitRequests /\ [][NextRequests]_vars

InitCapture ==
    CaptureInit /\ ScoreIdle /\ BilateralIdle /\ TrendIdle /\ VideoIdle /\
    RequestsIdle /\ MetricsIdle /\ FilterIdle /\ CorrectionsIdle /\ ArmsIdle
NextCapture == ReadFrame \/ ReleaseCapture
SpecCapture == InitCapture /\ [][NextCapture]_vars

InitMetrics ==
    MetricsInit /\ ScoreIdle /\ BilateralIdle /\ TrendIdle /\ VideoIdle /\
    RequestsIdle /\ CaptureIdle /\ FilterIdle /\ CorrectionsIdle /\ ArmsIdle
NextMetrics == CalculateAll
SpecMetrics == InitMetrics /\ [][NextMetrics]_vars

InitFilter ==
    FilterInit /\ ScoreIdle /\ BilateralIdle /\ TrendIdle /\ VideoIdle /\
    RequestsIdle /\ CaptureIdle /\ MetricsIdle /\ CorrectionsIdle /\
    ArmsIdle
NextFilter == FilterLandmarks
SpecFilter == InitFilter /\ [][NextFilter]_vars

InitCorrections ==
    CorrectionsInit /\ ScoreIdle /\ BilateralIdle /\ TrendIdle /\
    VideoIdle /\ RequestsIdle /\ CaptureIdle /\ MetricsIdle /\
    FilterIdle /\ ArmsIdle
NextCorrections == CountCorrections
SpecCorrections == InitCorrections /\ [][NextCorrections]_vars

InitArms ==
    ArmsInit /\ ScoreIdle /\ BilateralIdle /\ TrendIdle /\ VideoIdle /\
    RequestsIdle /\ CaptureIdle /\ MetricsIdle /\ FilterIdle /\
    CorrectionsIdle
NextArms == CalculateArmMetrics
SpecArms == InitArms /\ [][NextArms]_vars




(***************************************************************************)
(* Claims about get_duration_score                                         *)
(***************************************************************************)
\* the five plateaus the claim gives for [1 s, 30 s)
plateau(d) ==
    IF d < 1000 THEN 1
    ELSE IF d < 1500 THEN 2
    ELSE IF d < 2000 THEN 3
    ELSE IF d < 2500 THEN 4
    ELSE 5

\* C1: for every hold time h with 1 <= h < 30 s, values between tenths of a
\* second included, get_duration_score(h) is the plateau of h ([1,10) -> 1,
\* [10,15) -> 2, [15,20) -> 3, [20,25) -> 4, [25,30) -> 5) and it does not
\* decrease when h grows.
C1_FivePlateausMonotone ==
    (100 <= prev_duration /\ duration < 3000) =>
        /\ score = plateau(duration)
        /\ prev_score <= score

\* C2: a hold time below 1 s scores 1, a hold time of 30 s or more scores 5,
\* and the score is always in 1..5.
C2_FloorAndCeiling ==
    /\ score \in 1..5
    /\ (duration < 100 => score = 1)
    /\ (duration >= 3000 => score = 5)

(***************************************************************************)
(* Claims about calculate_bilateral_comparison                             *)
(***************************************************************************)
\* |left - right| / max(left, right) * 100 is strictly below 20
BelowTwentyPct ==
    Abs(left_metrics.hold_time - right_metrics.hold_time) * 100
        < 20 * Max(left_metrics.hold_time, right_metrics.hold_time)

BothZero == left_metrics.hold_time = 0 /\ right_metrics.hold_time = 0

mirrored(leg) ==
    IF leg = "left" THEN "right"
    ELSE IF leg = "right" THEN "left"
    ELSE leg

\* C13: comparing the two records in the other order returns the same
\* overall_symmetry_score, symmetry_assessment, duration_difference,
\* duration_difference_pct, sway_difference, sway_symmetry_score and
\* arm_angle_difference; dominant_leg has left and right exchanged
\* (balanced stays) and corrections_difference changes sign
C13_SwapSymmetric ==
    comparison # None =>
        LET swapped ==
                calculate_bilateral_comparison(right_metrics, left_metrics)
        IN  /\ swapped.overall_symmetry_score
                  = comparison.overall_symmetry_score
            /\ swapped.symmetry_assessment = comparison.symmetry_assessment
            /\ swapped.duration_difference = comparison.duration_difference
            /\ swapped.duration_difference_pct
                  = comparison.duration_difference_pct
            /\ swapped.sway_difference = comparison.sway_difference
            /\ swapped.sway_symmetry_score = comparison.sway_symmetry_score
            /\ swapped.arm_angle_difference = comparison.arm_angle_difference
            /\ swapped.dominant_leg = mirrored(comparison.dominant_leg)
            /\ swapped.corrections_difference
                  = -comparison.corrections_difference

\* two records that differ in every compared field, the left leg dominant
C13_Witness ==
    /\ comparison # None
    /\ comparison.dominant_leg = "left"
    /\ comparison.sway_difference > 0
    /\ comparison.arm_angle_difference > 0
    /\ comparison.corrections_difference > 0
    /\ comparison.overall_symmetry_score > 0

\* the documented example: left holds 25.3 s with sway 2.1, right holds
\* 23.8 s with sway 2.3, arm angles and corrections equal on both sides
DocumentedExample ==
    /\ comparison # None
    /\ left_metrics.hold_time = 253
    /\ left_metrics.sway_velocity = 21
    /\ right_metrics.hold_time = 238
    /\ right_metrics.sway_velocity = 23
    /\ arm_avg(left_metrics) = arm_avg(right_metrics)
    /\ left_metrics.corrections_count = right_metrics.corrections_count

usable_times == hold_times(assessments)

StrictlyIncreasing(times) ==
    \A i \in 1..(Len(times) - 1) : times[i] < times[i + 1]

\* sum of the 3 most recent hold times, sum and number of the earlier ones
recent_sum == usable_times[Len(usable_times)]
                + usable_times[Len(usable_times) - 1]
                + usable_times[Len(usable_times) - 2]
older_sum == Sum(usable_times) - recent_sum
older_count == Len(usable_times) - 3

\* the mean of the 3 most recent exceeds / reaches pct% of the earlier mean:
\* recent_sum / 3 > (pct / 100) * older_sum / older_count
RecentAbove(pct) == 100 * older_count * recent_sum > 3 * pct * older_sum
RecentAtLeast(pct) == 100 * older_count * recent_sum >= 3 * pct * older_sum
RecentBelow(pct) == 100 * older_count * recent_sum < 3 * pct * older_sum
RecentAtMost(pct) == 100 * older_count * recent_sum <= 3 * pct * older_sum

IncreasingHistoryAnalyzed ==
    /\ analysis # None
    /\ Len(usable_times) >= 4
    /\ StrictlyIncreasing(usable_times)

\* the bucket of a score given in tenths of a point
bucket_of(total) ==
    IF total >= 850 THEN "excellent"
    ELSE IF total >= 700 THEN "good"
    ELSE IF total >= 500 THEN "fair"
    ELSE "poor"

\* C26: in every result the symmetry_assessment is the bucket of the
\* overall_symmetry_score returned with it (excellent from 85, good from 70,
\* fair from 50, else poor), and that score lies in 0..100
C26_AssessmentMatchesScore ==
    comparison # None =>
        /\ comparison.overall_symmetry_score \in 0..1000
        /\ comparison.symmetry_assessment =
               bucket_of(comparison.overall_symmetry_score)

\* C4 (as claimed): a history of at least 4 usable records with strictly
\* increasing hold times is always classified 'improving'.
C4_IncreasingAlwaysImproving ==
    IncreasingHistoryAnalyzed =>
        (analysis.raised = "no" /\ analysis.trend = "improving")

\* C4 (amended): a history of at least 4 usable records with strictly
\* increasing hold times is classified 'improving' or 'stable', never
\* 'declining': 'improving' when the mean of the 3 most recent hold times is
\* more than 10% above the mean of the earlier ones, 'stable' when it is
\* less than 10% above it.
C4_IncreasingNeverDeclining ==
    IncreasingHistoryAnalyzed =>
        /\ analysis.raised = "no"
        /\ analysis.trend \in {"improving", "stable"}
        /\ RecentAbove(110) => analysis.trend = "improving"
        /\ RecentBelow(110) => analysis.trend = "stable"

\* strictly increasing hold times whose recent mean is less than 10% above
\* the earlier mean, classified 'stable'
C4_Witness ==
    /\ IncreasingHistoryAnalyzed
    /\ RecentBelow(110)
    /\ analysis.trend = "stable"

\* C5: with at least 4 usable records the trend is 'improving' when the
\* recent mean is at least 10% above the earlier mean (exactly 10% included),
\* 'declining' when it is at least 10% below (exactly 10% included), 'stable'
\* otherwise; the strength is 'significant' when the gap exceeds 25%; and
\* hold times 8, 9, 10, 11, 14, 16 give improving / significant.
C5_TenPercentInclusive ==
    (analysis # None /\ Len(usable_times) >= 4) =>
        /\ analysis.raised = "no"
        /\ RecentAtLeast(110) => analysis.trend = "improving"
        /\ RecentAtMost(90) => analysis.trend = "declining"
        /\ (RecentBelow(110) /\ RecentAbove(90)) => analysis.trend = "stable"
        /\ (RecentAbove(125) \/ RecentBelow(75))
              => analysis.trend_strength = "significant"
        /\ usable_times = <<8, 9, 10, 11, 14, 16>>
              => (analysis.trend = "improving"
                  /\ analysis.trend_strength = "significant")


\* C15: analyze_trend returns an analysis and raises nothing, whatever the
\* non-negative hold times of the history, a oldest hold time of 0 included
C15_NeverRaises ==
    analysis # None => analysis.raised = "no"

\* the records of a list that carry metrics
usable_records(list) ==
    SelectSeq(list, LAMBDA a : "hold_time" \in DOMAIN a.metrics)

\* C21: records whose metrics are missing or empty are skipped without an
\* error and do not count: the result is that of the list without them
\* (assessment_count aside), and with fewer than 2 usable records it is
\* 'stable', 'slight', with no direction changes
C21_SkipsMissingMetrics ==
    analysis # None =>
        /\ analysis.raised = "no" =>
               [analysis EXCEPT !.assessment_count = 0] =
               [analyze_trend(usable_records(assessments))
                    EXCEPT !.assessment_count = 0]
        /\ Len(usable_records(assessments)) < 2 =>
               /\ analysis.raised = "no"
               /\ analysis.trend = "stable"
               /\ analysis.trend_strength = "slight"
               /\ analysis.direction_changes = <<>>

\* a history of one usable record and one with empty metrics was analyzed
C21_Witness ==
    /\ analysis # None
    /\ Len(usable_records(assessments)) = 1
    /\ \E i \in 1..Len(assessments) : assessments[i].metrics = EmptyDict
    /\ analysis.trend = "stable"

\* the hold times of the analyzed history, oldest first, and the direction
\* of the step that ends at the i-th of them (i in 2..n, 1-based)
analyzed_times == hold_times(assessments)
direction_of_step(i) ==
    step_direction(analyzed_times[i - 1], analyzed_times[i])
\* the step ending at i is not flat and the most recent non-flat step before
\* it went the other way
is_reversal(i) ==
    /\ direction_of_step(i) # "flat"
    /\ \E j \in 2..(i - 1) :
          /\ direction_of_step(j) \notin {"flat", direction_of_step(i)}
          /\ \A k \in (j + 1)..(i - 1) : direction_of_step(k) = "flat"
opposite(d) == IF d = "up" THEN "down" ELSE "up"

\* C24: _detect_direction_changes records exactly one event for each step
\* that exceeds +/-5% and whose direction differs from the most recent
\* earlier non-flat step; flat steps create no event and do not reset the
\* remembered direction, the first non-flat step creates none.  Hence the
\* events have strictly increasing at_index in 2..n-1 (0-based), each has
\* from_direction # to_direction, and each event's from_direction is the
\* previous event's to_direction.
C24_OneEventPerReversal ==
    (analysis # None /\ analysis.raised = "no") =>
        LET events == analysis.direction_changes
            n == Len(analyzed_times)
        IN  /\ {events[k].at_index + 1 : k \in 1..Len(events)} =
                   {i \in 2..n : is_reversal(i)}
            /\ \A k \in 1..Len(events) :
                  /\ events[k].at_index \in 2..(n - 1)
                  /\ events[k].to_direction =
                         direction_of_step(events[k].at_index + 1)
                  /\ events[k].from_direction =
                         opposite(events[k].to_direction)
                  /\ events[k].from_direction # events[k].to_direction
                  /\ k > 1 =>
                        /\ events[k - 1].at_index < events[k].at_index
                        /\ events[k].from_direction =
                               events[k - 1].to_direction

\* a history that went up, stayed flat, then came down, and was reported
\* with an event at the step down
C24_Witness ==
    /\ analysis # None
    /\ analysis.raised = "no"
    /\ \E i \in 4..Len(analyzed_times) :
          /\ direction_of_step(i - 2) = "up"
          /\ direction_of_step(i - 1) = "flat"
          /\ direction_of_step(i) = "down"
          /\ \E k \in 1..Len(analysis.direction_changes) :
                analysis.direction_changes[k].at_index = i - 1

\* C25: for every analyzed history, with 2-3 usable records as with 4 or
\* more, trend_strength is 'slight' exactly when trend is 'stable' (also at
\* a first-to-last change of exactly +10% or -10%)
C25_SlightIffStable ==
    (analysis # None /\ analysis.raised = "no") =>
        (analysis.trend_strength = "slight" <=> analysis.trend = "stable")

C18_OrderIndependent ==
    (analysis # None /\ given # None) => analysis = reference.result

(***************************************************************************)
(* Video analysis                                                          *)
(***************************************************************************)
DetectedFailures == {"foot_touchdown", "support_foot_moved"}
DataQualityErrors == {"no_frames", "no_person", "insufficient_pose"}
Returned == pc = "done" /\ outcome.kind = "returned"
Raised == pc = "done" /\ outcome.kind = "raised"
\* the call got as far as the validation after the frame loop
PastFrameLoop ==
    /\ pc = "done"
    /\ (outcome.kind = "raised" =>
            outcome.error \in DataQualityErrors \cup
                              {"filter_failed", "upload_failed"})

\* C6: no failure is detected on a frame whose timestamp is below 3 s,
\* whatever the pose in it, so an analysis never ends with foot_touchdown or
\* support_foot_moved and a duration below 3 s
C6_GracePeriod ==
    /\ (frames_processed > 0 /\ timestamp < GRACE_PERIOD_MS) =>
            failure_reason = "time_complete"
    /\ (Returned /\ outcome.failure_reason \in DetectedFailures) =>
            outcome.duration >= GRACE_PERIOD_MS

\* a frame inside the first 3 s shows the raised foot down, the support
\* foot away from where it started, and the analysis goes on
C6_Witness ==
    /\ pc = "frames"
    /\ frames_processed > 1
    /\ timestamp < GRACE_PERIOD_MS
    /\ landmarks # None
    /\ _check_foot_touchdown(leg_tested, landmarks)
    /\ _check_support_foot_moved(leg_tested, support_ankle_initial, landmarks)
    /\ failure_reason = "time_complete"

\* the timestamp of the first frame at or after the grace period: the
\* frame on which monitoring begins when a pose is found in it
first_monitored_timestamp ==
    next_timestamp_ms(
        CHOOSE n \in 0..MaxEmitted :
            /\ next_timestamp_ms(n) >= GRACE_PERIOD_MS
            /\ n > 0 => next_timestamp_ms(n - 1) < GRACE_PERIOD_MS)

\* C22: the reference point of support_foot_moved is the support ankle's
\* position in the frame on which monitoring begins, and it is set on every
\* frame that is checked at or after the grace period
C22_ReferenceAtTransition ==
    /\ (frames_processed > 0 /\ timestamp = first_monitored_timestamp
            /\ landmarks # None) =>
           support_ankle_initial =
               landmarks.lm[support_ankle_idx(leg_tested)]
    /\ (frames_processed > 0 /\ timestamp >= GRACE_PERIOD_MS
            /\ landmarks # None) =>
           support_ankle_initial # None

\* the foot_touchdown and support_foot_moved conditions on the frame in hand
TouchdownHolds == _check_foot_touchdown(leg_tested, landmarks)
MovedHolds ==
    _check_support_foot_moved(leg_tested, support_ankle_initial, landmarks)
\* the frame in hand shows a pose at or after the grace period
MonitoredFrame ==
    frames_processed > 0 /\ landmarks # None /\ timestamp >= GRACE_PERIOD_MS

\* the frame loop and what follows it, frame by frame
C23_FailedFrame ==
    /\ (pc = "frames" /\ MonitoredFrame) => ~TouchdownHolds /\ ~MovedHolds
    /\ failure_reason \in DetectedFailures =>
           /\ pc # "frames"
           /\ MonitoredFrame
           /\ failure_reason = IF TouchdownHolds THEN "foot_touchdown"
                                ELSE "support_foot_moved"
           /\ TouchdownHolds \/ MovedHolds
           /\ last_timestamp = timestamp
           /\ frame_count = frames_processed
           /\ processed_count = frames_processed - 1
    /\ (Returned /\ outcome.failure_reason \in DetectedFailures) =>
           /\ outcome.failure_reason = failure_reason
           /\ outcome.duration = timestamp

\* once a failure is detected, a step changes neither the reason nor what
\* has been decoded, fed and appended
FailedIsTerminal ==
    failure_reason \in DetectedFailures =>
        /\ failure_reason' = failure_reason
        /\ frames_processed' = frames_processed
        /\ frames_with_pose' = frames_with_pose
        /\ frame_count' = frame_count
        /\ tracker_received' = tracker_received
        /\ processed_count' = processed_count
        /\ last_timestamp' = last_timestamp

\* C23: the failure reason is decided by the earliest pose-bearing frame at
\* or after the grace period on which a failure condition holds, touchdown
\* before support_foot_moved; after it no frame is decoded, fed to the pose
\* model or appended, the reason is not overwritten, and the hold time is
\* that frame's timestamp
C23_FirstFailureWins ==
    /\ []C23_FailedFrame
    /\ [][FailedIsTerminal]_vars

\* an analysis returned foot_touchdown for a frame on which the support foot
\* had moved as well
C23_Witness ==
    /\ Returned
    /\ outcome.failure_reason = "foot_touchdown"
    /\ TouchdownHolds /\ MovedHolds
    /\ outcome.duration = timestamp

\* C7: without a detected failure the run ends as time_complete when the
\* timestamp reaches the 30 s budget: no frame beyond 30 s is processed, a
\* returned duration is at most 30 s, and time_complete is returned only
\* when the frames reached 30 s
C7_ThirtySecondBudget ==
    /\ frames_processed > 0 => timestamp <= TIME_BUDGET_MS
    /\ Returned => outcome.duration <= TIME_BUDGET_MS
    /\ (Returned /\ outcome.failure_reason = "time_complete") =>
            timestamp >= TIME_BUDGET_MS

\* C8: after the frame loop the call raises the data-quality error of the
\* first failing test (no frame processed; no frame with a pose; a pose in
\* less than half of the frames) and then returns nothing and uploads
\* nothing; it gets past the validation, and can return, exactly when a pose
\* was found in at least half of the frames, half included
C8_DataQuality ==
    PastFrameLoop =>
        /\ frames_processed = 0 <=>
                (Raised /\ outcome.error = "no_frames")
        /\ (frames_processed > 0 /\ frames_with_pose = 0) <=>
                (Raised /\ outcome.error = "no_person")
        /\ (frames_with_pose > 0 /\ 2 * frames_with_pose < frames_processed)
                <=> (Raised /\ outcome.error = "insufficient_pose")
        /\ (Raised /\ outcome.error \in DataQualityErrors) => ~uploaded
        /\ Returned =>
                /\ frames_processed > 0
                /\ 2 * frames_with_pose >= frames_processed
                /\ uploaded

\* a result is returned for a pose in exactly half of the frames
C8_Witness ==
    /\ Returned
    /\ 2 * frames_with_pose = frames_processed
    /\ uploaded

\* C9: the landmarker never receives a timestamp that is not strictly
\* greater than the one it received in the previous call
C9_RejectsNonIncreasing ==
    Len(tracker_received) = 2 => tracker_received[1] < tracker_received[2]

\* C10: once the processor exists, the call ends, by return or by raise,
\* with the landmarker closed
C10_ClosedOnEveryExit ==
    (pc = "done" /\ landmarker # "none") => landmarker = "closed"

\* the call ended with the ValueError of the duration validation
DurationRejected ==
    pc = "done" /\ outcome \in {raised("too_short"), raised("too_long")}
\* the call has been through the duration validation
PastDurationCheck ==
    /\ pc \notin {"start", "validate_duration"}
    /\ outcome # raised("landmarker_init_failed")

\* C20: analyze_video rejects the client-provided duration exactly when it
\* is below 5 s or above 40 s, 5.0 and 40.0 being accepted (50 and 400
\* tenths), and on rejection no frame has been decoded or fed to the pose
\* model and no keypoint file has been uploaded
C20_DurationBounds ==
    /\ PastDurationCheck =>
            (DurationRejected <=> (client_duration < 50 \/ client_duration > 400))
    /\ DurationRejected =>
            /\ processed_count = 0
            /\ frames_processed = 0
            /\ frame_count = 0
            /\ tracker_received = <<>>
            /\ ~uploaded

\* a clip of 40.1 s has been rejected
C20_Witness == DurationRejected /\ client_duration = 401

(***************************************************************************)
(* Concurrent requests                                                     *)
(***************************************************************************)
\* C11: every pose-model instance receives frames of at most one video, and
\* the timestamps it is given increase strictly
C11_OneVideoPerInstance ==
    \A i \in Instances :
        /\ Cardinality(instances[i].videos) <= 1
        /\ Len(instances[i].received) = 2 =>
                instances[i].received[1] < instances[i].received[2]

(***************************************************************************)
(* Frame timestamps                                                        *)
(***************************************************************************)
\* the timestamp of the frame emitted after n others, from n and the target
\* rate alone
grid_timestamp(n) == 1 + (n * 1000) \div target_fps

\* C12: the timestamps extract_frames yields are greater than 0 and
\* strictly increasing, each is determined by the number of frames emitted
\* before it and the target rate whatever frame rate the container reports,
\* and the integer milliseconds the frame loop derives from them are
\* strictly increasing too
C12_Timestamps ==
    /\ \A i \in 1..Len(yielded) : yielded[i] > 0
    /\ Len(yielded) = 2 => yielded[1] < yielded[2]
    /\ Len(passed) = 2 => passed[1] < passed[2]
    /\ Len(yielded) >= 1 =>
            yielded[Len(yielded)] =
                grid_timestamp(generator.processed_count - 1)
    /\ generator.processed_count = 1 => yielded = <<1>>

\* a container reporting 60 fps: the 31st emitted frame, whose timestamp
\* 1.001 s becomes 1000 ms, follows the 30th at 967 ms
C12_Witness ==
    /\ generator.reported_fps = 60
    /\ generator.frame_interval = 2
    /\ yielded = <<967, 1001>>
    /\ passed = <<967, 1000>>



\* C29: extract_frames emits every stride-th decoded frame, where stride =
\* round(source_fps / target_fps) with a minimum of 1 (50 fps at target 30
\* gives 2), and the first decoded frame is always emitted
C29_StrideIsRounded ==
    generator.source_fps > 0 =>
        /\ generator.frame_interval =
               Max(1, round_to(<<generator.source_fps, target_fps>>, 1))
        /\ generator.frame_count >= 1 => generator.processed_count >= 1
        /\ generator.processed_count =
               (generator.frame_count + generator.frame_interval - 1)
                   \div generator.frame_interval

\* C16: calculate_all always returns a metrics record and never raises: for
\* an empty filtered trajectory the all-zero record with duration_score 1,
\* and for every non-empty trajectory a full record whose stability_score
\* lies in 0..100 (0..1000 tenths of a point).
C16_AlwaysReturns ==
    all_metrics # None =>
        /\ ~has_raised(all_metrics)
        /\ filtered_landmarks = <<>> => all_metrics = _empty_metrics
        /\ filtered_landmarks # <<>> =>
               all_metrics.stability_score \in 0..1000

\* what does hold of calculate_all: the empty trajectory gives the empty
\* record, and every other one leaves the call with the KeyError of the
\* missing ceiling
C16_EmptyOrKeyError ==
    all_metrics # None =>
        IF filtered_landmarks = <<>>
        THEN all_metrics = _empty_metrics
        ELSE all_metrics = [raised |-> "KeyError", key |-> "arm_excursion_max"]


\* C19: filter_landmarks applied to a sequence of fewer than 3 frames (0, 1
\* or 2) returns it unchanged, without raising: the same number of frames
\* and every x, y, z and visibility equal to the input's.
C19_ShortSequencesUnchanged ==
    (filter_result # None /\ Len(raw_landmarks) < 3) =>
        filter_result = [value |-> raw_landmarks]

\* a two-frame list whose frames differ has been through filter_landmarks
C19_Witness ==
    /\ filter_result # None
    /\ Len(raw_landmarks) = 2
    /\ raw_landmarks[1] # raw_landmarks[2]
    /\ filter_result = [value |-> raw_landmarks]


\* the hip x series of the trajectory counted, and whether sample i lies
\* beyond, or strictly within, the threshold distance of the series' mean
hip_xs == [i \in 1..Len(hip_path) |-> hip_path[i][1]]
beyond(i) ==
    Abs(Len(hip_xs) * hip_xs[i] - Sum(hip_xs))
        > CORRECTION_THRESHOLD * Len(hip_xs)
within(i) ==
    Abs(Len(hip_xs) * hip_xs[i] - Sum(hip_xs))
        < CORRECTION_THRESHOLD * Len(hip_xs)
\* sample i is back within the threshold after an earlier sample beyond it,
\* with no return in between
is_return(i) ==
    /\ within(i)
    /\ \E j \in 1..(i - 1) :
          beyond(j) /\ \A k \in (j + 1)..(i - 1) : ~within(k)
\* sample i is beyond the threshold and the sample before it is not
is_outward_crossing(i) == beyond(i) /\ (i > 1 => ~beyond(i - 1))

\* C27: the count increases by one only on a sample that is back within the
\* threshold distance of the mean after an earlier sample was beyond it;
\* repeated samples outside count once, an excursion still outside at the
\* last sample is not counted, and the count exceeds neither the number of
\* outward crossings nor floor(n/2) for n samples
C27_CountsReturns ==
    corrections_counted # None =>
        LET n == Len(hip_xs)
        IN  /\ corrections_counted.count =
                   Cardinality({i \in 1..n : is_return(i)})
            /\ corrections_counted.count <=
                   Cardinality({i \in 1..n : is_outward_crossing(i)})
            /\ corrections_counted.count <= n \div 2

\* a trajectory that stayed outside for two samples, came back, and was
\* outside again at its last sample: one correction
C27_Witness ==
    /\ corrections_counted # None
    /\ corrections_counted.count = 1
    /\ \E i \in 2..(Len(hip_xs) - 1) :
          beyond(i - 1) /\ beyond(i) /\ is_return(i + 1)
    /\ beyond(Len(hip_xs))



\* C30: for every sequence of n >= 3 frames (exactly 3 included)
\* filter_landmarks completes without raising and returns n frames of the
\* same number of landmarks, each with the input's z and visibility
C30_FiltersThreeOrMore ==
    (filter_result # None /\ Len(raw_landmarks) >= 3) =>
        /\ ~has_raised(filter_result)
        /\ Len(filter_result.value) = Len(raw_landmarks)
        /\ \A f \in 1..Len(raw_landmarks) :
              /\ Len(filter_result.value[f]) = Len(raw_landmarks[f])
              /\ \A l \in 1..Len(raw_landmarks[f]) :
                    /\ filter_result.value[f][l][3] = raw_landmarks[f][l][3]
                    /\ filter_result.value[f][l][4] = raw_landmarks[f][l][4]

\* C28: arm_asymmetry_ratio is 1.0 when both arm figures are zero, a large
\* finite sentinel (neither 1.0 nor infinity) when only the right-arm
\* denominator is zero and the left value is not, and left / right
\* otherwise
C28_AsymmetryRatio ==
    arm_metrics # None =>
        LET left == arm_metrics.armExcursionLeft
            right == arm_metrics.armExcursionRight
            ratio == arm_metrics.armAsymmetryRatio
        IN  /\ (left = 0 /\ right = 0) => ratio = finite_ratio(1, 1)
            /\ (left # 0 /\ right = 0) =>
                   /\ ratio.kind = "finite"
                   /\ ratio.num # ratio.den
            /\ right # 0 => ratio = finite_ratio(left, right)

=============================================================================
